---- MODULE Spec2Model ----
(***************************************************************************)
(* State-machine model of insights-results-aggregator-exporter: the        *)
(* export of database tables as CSV to files or to an S3 bucket.           *)
(*                                                                         *)
(* The database, the file system and the S3 bucket are the environment.    *)
(* Every library call that can fail (Query, ColumnTypes, Scan, Close,      *)
(* os.Create, csv Write/Flush, PutObject) has its outcome drawn with \E.   *)
(***************************************************************************)
EXTENDS Integers, Sequences, FiniteSets, TLC

VARIABLES
    catalog,     \* pg_tables: the table names the catalog lists (environment)
    ruleDisable, \* rule_disable: rule -> number of its rows (environment)
    db,          \* database: table name -> [cols, rows] (environment)
    altered,     \* another client has changed the schema of the table in export
    mode,        \* "table": one export called directly; "run": performDataExport
    pc,          \* position of the program
    sinkKind,    \* "file" | "S3": StoreTableIntoFile or StoreTable
    limit,       \* the limit argument of the table export
    cur,         \* tableName argument of the table export in progress
    probe,       \* what RetrieveColumnTypes returned to the table export
    colNames,    \* colNames local of StoreTable / StoreTableIntoFile
    writer,      \* the csv.Writer of the export in progress
    read,        \* what ReadTable returned to WriteTableContent
    tErr,        \* error returned by the table export
    files,       \* file system: file name -> [exists, content, handles]
    bucket,      \* S3 bucket: object name -> [exists, content]
    uploads,     \* object names handed to PutObject with success, in order
    rowsOpen,    \* result sets opened and not closed
    queries,     \* statements issued on the connection, in order
    cliFlags,    \* CliFlags: the operation flags, Output and the export flags
    connection,  \* the storage connection: "none" | "open" | "closed"
    tableNames,  \* tableNames local of performDataExportToFiles / ToS3
    idx,         \* position in tableNames of the table in export
    exitStatus,  \* exit status performDataExport returned (NotExited before)
    runErr,      \* error performDataExport returned
    exported,    \* per table export that returned nil: its name and artifact
    calls,       \* what the exports of the three aggregate artifacts did
    main         \* mainWithStatusCode: operation selected, logger, status

vars == <<catalog, ruleDisable, db, altered, mode, pc, sinkKind, limit, cur,
          probe, colNames, writer, read, tErr, files, bucket, uploads,
          rowsOpen, queries, cliFlags, connection, tableNames, idx,
          exitStatus, runErr, exported, calls, main>>

-----------------------------------------------------------------------------
(* Bounds of the model *)

MaxCols == 2
MaxRows == 2
MaxLimit == 2
MaxTables == 2
MaxRuleList == 2
MaxCount == 2

-----------------------------------------------------------------------------
(* Values *)

NoErr == "nil"

\* A dynamically typed Go value (interface{}): k is the dynamic type.
\* All fields are always present so that values of different types compare.
Val(k, b, i, s) == [k |-> k, b |-> b, i |-> i, s |-> s]
NilV == Val("nil", FALSE, 0, "")
BoolV(b) == Val("bool", b, 0, "")
IntV(i) == Val("int64", FALSE, i, "")
StrV(s) == Val("string", FALSE, 0, s)
\* SQL NULL as the driver hands it over
NullV == Val("NULL", FALSE, 0, "")

Min(a, b) == IF a < b THEN a ELSE b

\* Sequences over S of length lo..hi
SeqsOf(S, lo, hi) == UNION {[1..n -> S] : n \in lo..hi}

Range(s) == {s[i] : i \in DOMAIN s}

-----------------------------------------------------------------------------
(* The database *)

TableUniverse == {"t1", "t2"}

\* sql.ColumnType: Name() and DatabaseTypeName()
Column(n, t) == [name |-> n, type |-> t]

\* the columns tables are made of: one per type name the code names, and
\* one (FLOAT64, as in the tests) the code does not name
ColumnPool ==
    << Column("id", "INT4"), Column("text", "VARCHAR"),
       Column("valid", "BOOL"), Column("value", "FLOAT64"),
       Column("note", "TEXT"), Column("uuid", "UUID"),
       Column("ts", "TIMESTAMP") >>

\* a row is all NULLs, all zero values, or all non-zero values; the driver
\* yields int64 for INT4, bool for BOOL and text for everything else
RowPatterns == <<"vals", "nulls", "zeros">>

CellOf(p, type) ==
    CASE p = "nulls" -> NullV
      [] p = "zeros" ->
            (CASE type = "INT4" -> IntV(0)
               [] type = "BOOL" -> BoolV(FALSE)
               [] OTHER -> StrV(""))
      [] OTHER ->
            (CASE type = "INT4" -> IntV(7)
               [] type = "BOOL" -> BoolV(TRUE)
               [] OTHER -> StrV("a"))

RowOf(p, cols) == [i \in 1..Len(cols) |-> CellOf(p, cols[i].type)]

\* schemas: runs of 1..MaxCols consecutive columns of the pool
Schemas ==
    {SubSeq(ColumnPool, i, Min(i + n - 1, Len(ColumnPool))) :
        i \in 1..Len(ColumnPool), n \in 1..MaxCols}

\* n rows whose patterns cycle through RowPatterns from the given one
Table(cols, first, n) ==
    [cols |-> cols,
     rows |-> [i \in 1..n |->
                 RowOf(RowPatterns[((first + i) % Len(RowPatterns)) + 1], cols)]]

Contents ==
    {Table(c, first, n) : c \in Schemas, first \in 1..Len(RowPatterns),
                          n \in 0..MaxRows}

EmptyTable == Table(<<ColumnPool[1]>>, 1, 0)

-----------------------------------------------------------------------------
(* SQL statements and what the database answers *)

Statement(text, t, lc) == [text |-> text, table |-> t, limitClause |-> lc]

select1FromTable(tableName) == Statement("SELECT * FROM", tableName, <<1>>)

selectCountFromTable(tableName) ==
    Statement("SELECT count(*) FROM", tableName, <<>>)

selectAllFromTable(tableName) == Statement("SELECT * FROM", tableName, <<>>)

\* the orders in which a scan can deliver the rows of a table: the
\* statements have no ORDER BY, so any order
ScanOrders(content) ==
    {p \in [1..Len(content.rows) -> 1..Len(content.rows)] :
        \A i, j \in 1..Len(content.rows) : i # j => p[i] # p[j]}

\* the table as one scan delivers it
Scanned(content, order) ==
    [content EXCEPT !.rows = [i \in 1..Len(content.rows) |-> content.rows[order[i]]]]

\* the rows a SELECT * statement produces on a table as scanned
ResultRows(stmt, content) ==
    IF stmt.limitClause = <<>>
    THEN content.rows
    ELSE SubSeq(content.rows, 1, Min(stmt.limitClause[1], Len(content.rows)))

-----------------------------------------------------------------------------
(* Scanning a row: fillInScanArgs, Rows.Scan, fillInMasterData *)

\* mutant of scanKindFor: the INT4 case is missing
scanKindFor_NoInt4(typeName) ==
    CASE typeName \in {"VARCHAR", "TEXT", "UUID", "TIMESTAMP"} -> "NullString"
      [] typeName = "BOOL" -> "NullBool"
      [] OTHER -> "NullString"

\* the scan slot fillInScanArgs allocates for one driver type name
scanKindFor(typeName) ==
    CASE typeName \in {"VARCHAR", "TEXT", "UUID", "TIMESTAMP"} -> "NullString"
      [] typeName = "BOOL" -> "NullBool"
      [] typeName = "INT4" -> "NullInt64"
      [] OTHER -> "NullString"

fillInScanArgs(columnTypes) ==
    [i \in 1..Len(columnTypes) |-> scanKindFor(columnTypes[i].type)]

\* text of a driver value, as Rows.Scan converts it for a *string destination
asString(cell) ==
    CASE cell.k = "string" -> cell.s
      [] cell.k = "int64" -> ToString(cell.i)
      [] cell.k = "bool" -> (IF cell.b THEN "true" ELSE "false")
      [] OTHER -> ""

\* mutant of ScanSlot: a NULL is handed on as nil, not as the zero value
ScanSlot_NullAsNil(kind, cell) ==
    IF cell.k = "NULL" THEN [kind |-> kind, valid |-> FALSE, v |-> NilV]
    ELSE CASE kind = "NullBool" ->
                 [kind |-> kind, valid |-> TRUE,
                  v |-> BoolV(IF cell.k = "bool" THEN cell.b ELSE cell.i = 1)]
           [] kind = "NullInt64" ->
                 [kind |-> kind, valid |-> TRUE, v |-> IntV(cell.i)]
           [] OTHER ->
                 [kind |-> kind, valid |-> TRUE, v |-> StrV(asString(cell))]

\* one slot after a successful Rows.Scan: Valid and the typed field.
\* A NULL leaves the field at its zero value.
ScanSlot(kind, cell) ==
    LET isNull == cell.k = "NULL" IN
    CASE kind = "NullBool" ->
            [kind |-> kind, valid |-> ~isNull,
             v |-> BoolV(IF cell.k = "bool" THEN cell.b ELSE cell.i = 1)]
      [] kind = "NullInt64" ->
            [kind |-> kind, valid |-> ~isNull, v |-> IntV(cell.i)]
      [] OTHER ->
            [kind |-> kind, valid |-> ~isNull, v |-> StrV(asString(cell))]

Scan(scanArgs, cells) ==
    [i \in 1..Len(scanArgs) |-> ScanSlot(scanArgs[i], cells[i])]

\* map from column name to the slot's typed field (z.Bool, z.String,
\* z.Int64); a later column of the same name overwrites an earlier one
fillInMasterData(columnTypes, scanArgs) ==
    LET names == {columnTypes[i].name : i \in 1..Len(columnTypes)}
        last(n) == CHOOSE i \in 1..Len(columnTypes) :
                      /\ columnTypes[i].name = n
                      /\ \A j \in 1..Len(columnTypes) :
                            columnTypes[j].name = n => j <= i
    IN [n \in names |-> scanArgs[last(n)].v]

\* one row of the result set decoded as ReadTable's loop body does
DecodeRow(columnTypes, cells) ==
    fillInMasterData(columnTypes, Scan(fillInScanArgs(columnTypes), cells))

-----------------------------------------------------------------------------
(* Exit codes *)

ExitStatusOK == 0
ExitStatusLoggingError == 1
ExitStatusStorageError == 2
ExitStatusS3Error == 3
ExitStatusConfigurationError == 4
ExitStatusIOError == 5

\* performDataExport has not returned
NotExited == ExitStatusOK - 1

s3Output == "S3"
fileOutput == "file"

\* CliFlags of a data export: none of the other operations is selected
Flags(output, exportMetadata, exportDisabledRules) ==
    [ShowVersion |-> FALSE, ShowAuthors |-> FALSE, ShowConfiguration |-> FALSE,
     CheckS3Connection |-> FALSE, ExportLog |-> FALSE,
     Output |-> output, ExportMetadata |-> exportMetadata,
     ExportDisabledRules |-> exportDisabledRules]

NoFlags == Flags("", FALSE, FALSE)

\* the rule_disable table: how many rows each rule has
Rules == {"ruleA", "ruleB", "ruleC"}

NoRules == [r \in Rules |-> 0]

-----------------------------------------------------------------------------
(* Errors: one value per library call that can fail *)

ErrQuery == "Query failed"
ErrColumnTypes == "ColumnTypes failed"
ErrRowsClose == "Rows.Close failed"
ErrScan == "Scan failed"
ErrCreate == "os.Create failed"
ErrWrite == "csv Write failed"
ErrFlush == "csv Flush failed"
ErrFileClose == "File.Close failed"
ErrPutObject == "PutObject failed"
ErrNewStorage == "NewStorage failed"
ErrNewS3Connection == "NewS3Connection failed"
ErrConnClose == "DB.Close failed"
ErrBufferIsNil == "Buffer is nil"
ErrUnknownOutput == "Unknown output type"
ErrBucketExists == "BucketExists failed"

-----------------------------------------------------------------------------
(* RetrieveColumnTypes: the probe query *)

ProbeOutcomes == {"ok", "Query", "ColumnTypes", "Close"}

\* what the call returned (columnTypes, err) and what it did: o is what the
\* driver did, opened and closed tell of the result set
ProbeResult(o, stmt, columnTypes, err, opened, closed) ==
    [called |-> TRUE, o |-> o, stmt |-> stmt, columnTypes |-> columnTypes,
     err |-> err, opened |-> opened, closed |-> closed]

NoProbe ==
    [called |-> FALSE, o |-> "", stmt |-> Statement("", "", <<>>),
     columnTypes |-> <<>>, err |-> NoErr, opened |-> FALSE, closed |-> FALSE]

\* mutant of RetrieveColumnTypes: a failed Query is logged and not returned
RetrieveColumnTypes_DropQueryError(tableName, content, o) ==
    LET sqlStatement == select1FromTable(tableName) IN
    CASE o = "Query" ->
            ProbeResult(o, sqlStatement, <<>>, NoErr, FALSE, FALSE)
      [] o = "ColumnTypes" ->
            ProbeResult(o, sqlStatement, <<>>, ErrColumnTypes, TRUE, FALSE)
      [] o = "Close" ->
            ProbeResult(o, sqlStatement, <<>>, ErrRowsClose, TRUE, TRUE)
      [] OTHER ->
            ProbeResult(o, sqlStatement, content.cols, NoErr, TRUE, TRUE)

\* mutant of RetrieveColumnTypes: rows.Close() is not called
RetrieveColumnTypes_KeepOpen(tableName, content, o) ==
    LET sqlStatement == select1FromTable(tableName) IN
    CASE o = "Query" ->
            ProbeResult(o, sqlStatement, <<>>, ErrQuery, FALSE, FALSE)
      [] o = "ColumnTypes" ->
            ProbeResult(o, sqlStatement, <<>>, ErrColumnTypes, TRUE, FALSE)
      [] o = "Close" ->
            ProbeResult(o, sqlStatement, content.cols, NoErr, TRUE, FALSE)
      [] OTHER ->
            ProbeResult(o, sqlStatement, content.cols, NoErr, TRUE, FALSE)

\* opened: Query returned a result set; closed: rows.Close() was called on
\* it before the return. Rows.Close releases the result set also when it
\* reports an error.
RetrieveColumnTypes(tableName, content, o) ==
    LET sqlStatement == select1FromTable(tableName) IN
    CASE o = "Query" ->
            ProbeResult(o, sqlStatement, <<>>, ErrQuery, FALSE, FALSE)
      [] o = "ColumnTypes" ->
            ProbeResult(o, sqlStatement, <<>>, ErrColumnTypes, TRUE, FALSE)
      [] o = "Close" ->
            ProbeResult(o, sqlStatement, <<>>, ErrRowsClose, TRUE, TRUE)
      [] OTHER ->
            ProbeResult(o, sqlStatement, content.cols, NoErr, TRUE, TRUE)

getColumnNames(columnTypes) ==
    [i \in 1..Len(columnTypes) |-> columnTypes[i].name]

-----------------------------------------------------------------------------
(* ReadTable: the full-table read *)

\* the statement ReadTable issues
limitedStatement(tableName, lim) ==
    LET sqlStatement == selectAllFromTable(tableName) IN
    IF lim > 0
    THEN [sqlStatement EXCEPT !.limitClause = <<lim>>]
    ELSE sqlStatement

\* outcomes of a read whose query produces n rows: at is the row whose Scan
\* fails, or the number of rows delivered before the cursor fails
ReadOutcomes(n) ==
    {[kind |-> k, at |-> 0] : k \in {"ok", "Query", "ColumnTypes"}}
    \cup {[kind |-> "Scan", at |-> j] : j \in 1..n}
    \cup {[kind |-> "Cursor", at |-> j] : j \in 0..(n - 1)}

\* what the call returned (finalRows, err) and what it did: o is what the
\* driver did; columnTypes what rows.ColumnTypes() gave; scanArgs the slots
\* of the last Scan; produced the rows the statement produces; fetched how
\* many of them rows.Next() delivered; rowsErr: rows.Err() is set
ReadResult(o, stmt, finalRows, err, opened, closed, columnTypes, produced, fetched, rowsErr) ==
    [called |-> TRUE, o |-> o, stmt |-> stmt, finalRows |-> finalRows,
     err |-> err, opened |-> opened, closed |-> closed,
     columnTypes |-> columnTypes,
     scanArgs |-> IF fetched > 0 THEN fillInScanArgs(columnTypes) ELSE <<>>,
     produced |-> produced, fetched |-> fetched, rowsErr |-> rowsErr]

NoRead ==
    [called |-> FALSE, o |-> [kind |-> "", at |-> 0],
     stmt |-> Statement("", "", <<>>), finalRows |-> <<>>, err |-> NoErr, opened |-> FALSE, closed |-> FALSE, columnTypes |-> <<>>,
     scanArgs |-> <<>>, produced |-> <<>>, fetched |-> 0, rowsErr |-> FALSE]

\* mutant of rowsOnScanError: the rows decoded so far are returned
rowsOnScanError_Partial(finalRows) == finalRows

\* what ReadTable returns as rows when a Scan fails: nil
rowsOnScanError(finalRows) == <<>>

\* mutant of deferredClose: rows.Close() only at the end of the loop
deferredClose_OnSuccessOnly(o) == o.kind \notin {"ColumnTypes", "Scan"}

\* the deferred rows.Close() runs on every return after a successful Query
deferredClose(o) == TRUE

\* rows.Next() ends the loop at the end of the result set and also when the
\* cursor fails; ReadTable does not read rows.Err()
ReadTable(tableName, lim, content, o) ==
    LET sqlStatement == limitedStatement(tableName, lim)
        produced == ResultRows(sqlStatement, content)
        columnTypes == content.cols
        decoded(n) == [i \in 1..n |-> DecodeRow(columnTypes, produced[i])]
    IN
    CASE o.kind = "Query" ->
            ReadResult(o, sqlStatement, <<>>, ErrQuery, FALSE, FALSE, <<>>,
                       <<>>, 0, FALSE)
      [] o.kind = "ColumnTypes" ->
            ReadResult(o, sqlStatement, <<>>, ErrColumnTypes, TRUE,
                       deferredClose(o), <<>>, produced, 0, FALSE)
      [] o.kind = "Scan" ->
            ReadResult(o, sqlStatement, rowsOnScanError(decoded(o.at - 1)),
                       ErrScan, TRUE, deferredClose(o), columnTypes,
                       produced, o.at, FALSE)
      [] o.kind = "Cursor" ->
            ReadResult(o, sqlStatement, decoded(o.at), NoErr, TRUE,
                       deferredClose(o), columnTypes, produced, o.at, TRUE)
      [] OTHER ->
            ReadResult(o, sqlStatement, decoded(Len(produced)), NoErr, TRUE,
                       deferredClose(o), columnTypes, produced,
                       Len(produced), FALSE)

-----------------------------------------------------------------------------
(* csv.Writer and WriteTableContent *)

NewWriter == [buf |-> <<>>, err |-> NoErr]

\* writer.Write(record): the record is buffered; a failed write sticks
csvWrite(w, record, ok) ==
    IF w.err # NoErr THEN w
    ELSE IF ok THEN [w EXCEPT !.buf = Append(@, record)]
    ELSE [w EXCEPT !.err = ErrWrite]

\* writer.Flush(): the buffered records reach the sink unless the writer
\* has failed or fails now
csvFlush(w, ok) ==
    IF w.err # NoErr THEN w
    ELSE IF ok THEN w
    ELSE [w EXCEPT !.err = ErrFlush]

\* mutant of csvError: the error the writer recorded is not read
csvError_NotRead(w) == NoErr

\* writer.Error(): the error recorded by an earlier Write or Flush
csvError(w) == w.err

\* finalRow[colName]: a missing key reads as nil
Lookup(finalRow, colName) ==
    IF colName \in DOMAIN finalRow THEN finalRow[colName] ELSE NilV

\* fmt.Sprintf("%v", value)
Sprintf(value) ==
    CASE value.k = "bool" -> (IF value.b THEN "true" ELSE "false")
      [] value.k = "int64" -> ToString(value.i)
      [] value.k = "string" -> value.s
      [] OTHER -> "<nil>"

\* mutant of RecordOf: a column the row does not have is left out
RecordOf_PresentOnly(finalRow, names) ==
    LET present == {i \in 1..Len(names) : names[i] \in DOMAIN finalRow}
        nth(k) == CHOOSE i \in present :
                     Cardinality({j \in present : j <= i}) = k
    IN [k \in 1..Cardinality(present) |-> Sprintf(finalRow[names[nth(k)]])]

\* the record WriteTableContent builds for one row
RecordOf(finalRow, names) ==
    [i \in 1..Len(names) |-> Sprintf(Lookup(finalRow, names[i]))]

\* failAt: the data record whose Write fails (0: none)
WriteTableContent(w, tableName, names, lim, content, o, failAt) ==
    LET r == ReadTable(tableName, lim, content, o)
        n == Len(r.finalRows)
        k == IF failAt \in 1..n THEN failAt - 1 ELSE n
        written == [w EXCEPT
                       !.buf = @ \o [i \in 1..k |-> RecordOf(r.finalRows[i], names)]]
    IN
    IF r.err # NoErr THEN [writer |-> w, err |-> r.err, read |-> r]
    ELSE IF failAt \in 1..n
         THEN [writer |-> [written EXCEPT !.err = ErrWrite],
               err |-> ErrWrite, read |-> r]
         ELSE [writer |-> written, err |-> NoErr, read |-> r]

-----------------------------------------------------------------------------
(* Files, objects and result sets *)

\* <tableName>.csv, as a file and as an object (the object prefix is a
\* configuration constant and left out)
ArtifactName(tableName) == [base |-> tableName, ext |-> ".csv"]

\* output files or objects containing metadata
listOfTables == [base |-> "_tables", ext |-> ".csv"]
metadataTable == [base |-> "_metadata", ext |-> ".csv"]
disabledRules == [base |-> "_disabled_rules", ext |-> ".csv"]

logFile == [base |-> "_logs", ext |-> ".txt"]

ArtifactNames ==
    {ArtifactName(t) : t \in TableUniverse}
    \cup {listOfTables, metadataTable, disabledRules, logFile}

NoFile == [exists |-> FALSE, content |-> <<>>, handles |-> 0]

\* os.Create: the file exists, is empty, and one more handle is open on it
osCreate(fs, name) ==
    [fs EXCEPT ![name] = [exists |-> TRUE, content |-> <<>>,
                          handles |-> @.handles + 1]]

\* the flushed records reach the file
fileAppend(fs, name, records) ==
    [fs EXCEPT ![name].content = @ \o records]

\* fout.Close(): the handle is released also when Close reports an error
fileClose(fs, name) == [fs EXCEPT ![name].handles = @ - 1]

NoObject == [exists |-> FALSE, content |-> <<>>]

\* minioClient.PutObject with success
putObject(b, name, records) ==
    [b EXCEPT ![name] = [exists |-> TRUE, content |-> records]]

\* the result set a call leaves open: who opened it, and the position of
\* its statement in queries
OpenRows(r, by, n) ==
    IF r.opened /\ ~r.closed THEN {[by |-> by, n |-> n]} ELSE {}

-----------------------------------------------------------------------------
(* Other clients of the database: a schema change *)

RemoveAt(s, p) == [i \in 1..(Len(s) - 1) |-> IF i < p THEN s[i] ELSE s[i + 1]]

DropColumn(content, p) ==
    [cols |-> RemoveAt(content.cols, p),
     rows |-> [i \in 1..Len(content.rows) |-> RemoveAt(content.rows[i], p)]]

AddColumn(content, c) ==
    [cols |-> Append(content.cols, c),
     rows |-> [i \in 1..Len(content.rows) |-> Append(content.rows[i], NullV)]]

\* (a change before the probe query is another initial table)
\* ALTER TABLE ... DROP COLUMN of any column but the last one left, or
\* ADD COLUMN of the first pool column the table does not have
Alterations(content) ==
    {DropColumn(content, p) : p \in {q \in 1..Len(content.cols) : Len(content.cols) > 1}}
    \cup {AddColumn(content, ColumnPool[i]) :
            i \in {j \in 1..Len(ColumnPool) :
                     /\ ColumnPool[j] \notin Range(content.cols)
                     /\ \A h \in 1..(j - 1) : ColumnPool[h] \in Range(content.cols)}}

\* a call of an aggregate export: the outcomes drawn for it (io, m, o), the
\* list it was given and the error it returned
\* buffer and out: the sink handed to a conversion called on its own, and
\* what reached that sink
NoCall ==
    [called |-> FALSE, io |-> [fail |-> "none", at |-> 0],
     m |-> [fail |-> "none", at |-> 0], o |-> [kind |-> "ok", at |-> 0],
     given |-> <<>>, err |-> NoErr, buffer |-> "", out |-> <<>>]

\* list: the call of ReadListOfTables of a run
NoCalls ==
    [list |-> NoCall, tableNames |-> NoCall, metadata |-> NoCall,
     disabledRules |-> NoCall]

Call(io, m, o, given, err) ==
    [called |-> TRUE, io |-> io, m |-> m, o |-> o, given |-> given, err |-> err,
     buffer |-> "", out |-> <<>>]

\* a conversion to CSV called on its own with a sink
Converted(buffer, io, m, given, out, err) ==
    [called |-> TRUE, io |-> io, m |-> m, o |-> NoCall.o, given |-> given,
     err |-> err, buffer |-> buffer, out |-> out]

\* mainWithStatusCode: operation is the case doSelectedOperation took,
\* logger the operation log createOperationLog returned, buffer the records
\* in the memory buffer of the log, check what checkS3Connection saw, upload
\* the outcome of storeOpertionLogIntoS3 ("": not called), status the
\* status mainWithStatusCode returned
NoCheck == [called |-> FALSE, client |-> FALSE, existsErr |-> FALSE, found |-> FALSE]

NoMain ==
    [called |-> FALSE, operation |-> "", logger |-> "", buffer |-> <<>>,
     check |-> NoCheck, upload |-> "", status |-> NotExited]

envVars == <<catalog, ruleDisable, db, altered>>
runVars == <<cliFlags, connection, tableNames, idx, exitStatus, runErr,
            exported, calls, main>>
callVars == <<mode, sinkKind, limit, cur>>
tableVars == <<probe, colNames, writer, read, tErr>>
sinkVars == <<files, bucket, uploads>>

AlterTable ==
    /\ ~altered
    /\ pc = "WriteTableContent"
    /\ \E content \in Alterations(db[cur]) : db' = [db EXCEPT ![cur] = content]
    /\ altered' = TRUE
    /\ UNCHANGED <<catalog, ruleDisable, pc, callVars, tableVars, sinkVars,
                   rowsOpen, queries, runVars>>

-----------------------------------------------------------------------------
(* StoreTableIntoFile *)

\* up to the header: RetrieveColumnTypes, os.Create, writeColumnNames
StoreTableIntoFileHeader ==
    /\ pc = "StoreTable"
    /\ sinkKind = "file"
    /\ \E o \in ProbeOutcomes, createOk \in BOOLEAN, headerOk \in BOOLEAN :
          LET r == RetrieveColumnTypes(cur, db[cur], o)
              names == getColumnNames(r.columnTypes)
              fileName == ArtifactName(cur)
              w == csvWrite(NewWriter, names, headerOk)
          IN
          \* an outcome is drawn for a call only when the call is reached
          /\ r.err # NoErr => createOk
          /\ ~createOk => headerOk
          /\ probe' = r
          /\ queries' = Append(queries, r.stmt)
          /\ rowsOpen' = rowsOpen \cup OpenRows(r, "RetrieveColumnTypes", Len(queries) + 1)
          /\ IF r.err # NoErr
             THEN /\ tErr' = r.err
                  /\ pc' = "return"
                  /\ UNCHANGED <<colNames, writer, files>>
             ELSE IF ~createOk
             THEN /\ tErr' = ErrCreate
                  /\ pc' = "return"
                  /\ colNames' = names
                  /\ UNCHANGED <<writer, files>>
             ELSE /\ colNames' = names
                  /\ files' = osCreate(files, fileName)
                  /\ writer' = w
                  /\ IF w.err # NoErr
                     THEN tErr' = w.err /\ pc' = "return"
                     ELSE tErr' = tErr /\ pc' = "WriteTableContent"
    /\ UNCHANGED <<envVars, callVars, read, bucket, uploads, runVars>>

\* from WriteTableContent to the return: Flush, Error, fout.Close
StoreTableIntoFileContent ==
    /\ pc = "WriteTableContent"
    /\ sinkKind = "file"
    /\ LET n == Len(ResultRows(limitedStatement(cur, limit), db[cur])) IN
       \E o \in ReadOutcomes(n), order \in ScanOrders(db[cur]), failAt \in 0..n,
          flushOk \in BOOLEAN, closeOk \in BOOLEAN :
          LET c == WriteTableContent(writer, cur, colNames, limit,
                                     Scanned(db[cur], order), o, failAt)
              fileName == ArtifactName(cur)
              w == csvFlush(c.writer, flushOk)
          IN
          \* an outcome is drawn for a call only when the call is reached
          /\ c.read.err # NoErr => failAt = 0
          /\ c.err # NoErr => flushOk
          /\ ~flushOk => closeOk
          /\ o.kind = "Query" => \A i \in DOMAIN order : order[i] = i
          /\ read' = c.read
          /\ queries' = Append(queries, c.read.stmt)
          /\ rowsOpen' = rowsOpen \cup OpenRows(c.read, "ReadTable", Len(queries) + 1)
          /\ pc' = "return"
          /\ IF c.err # NoErr
             THEN /\ tErr' = c.err
                  /\ writer' = c.writer
                  /\ UNCHANGED files
             ELSE IF csvError(w) # NoErr
             THEN /\ tErr' = csvError(w)
                  /\ writer' = w
                  /\ UNCHANGED files
             ELSE /\ writer' = [w EXCEPT !.buf = <<>>]
                  /\ files' = fileClose(fileAppend(files, fileName, w.buf),
                                        fileName)
                  /\ tErr' = IF closeOk THEN NoErr ELSE ErrFileClose
    /\ UNCHANGED <<envVars, callVars, probe, colNames, bucket, uploads, runVars>>

-----------------------------------------------------------------------------
(* StoreTable: the export to S3 *)

\* up to the header: RetrieveColumnTypes, writeColumnNames into the buffer
StoreTableHeader ==
    /\ pc = "StoreTable"
    /\ sinkKind = "S3"
    /\ \E o \in ProbeOutcomes :
          LET r == RetrieveColumnTypes(cur, db[cur], o)
              names == getColumnNames(r.columnTypes)
              w == csvWrite(NewWriter, names, TRUE)
          IN
          /\ probe' = r
          /\ queries' = Append(queries, r.stmt)
          /\ rowsOpen' = rowsOpen \cup OpenRows(r, "RetrieveColumnTypes", Len(queries) + 1)
          /\ IF r.err # NoErr
             THEN /\ tErr' = r.err
                  /\ pc' = "return"
                  /\ UNCHANGED <<colNames, writer>>
             ELSE /\ colNames' = names
                  /\ writer' = w
                  /\ tErr' = tErr
                  /\ pc' = "WriteTableContent"
    /\ UNCHANGED <<envVars, callVars, read, sinkVars, runVars>>

\* from WriteTableContent to the return: Flush, PutObject
StoreTableContent ==
    /\ pc = "WriteTableContent"
    /\ sinkKind = "S3"
    /\ LET n == Len(ResultRows(limitedStatement(cur, limit), db[cur])) IN
       \E o \in ReadOutcomes(n), order \in ScanOrders(db[cur]), putOk \in BOOLEAN :
          LET c == WriteTableContent(writer, cur, colNames, limit,
                                     Scanned(db[cur], order), o, 0)
              objectName == ArtifactName(cur)
              w == csvFlush(c.writer, TRUE)
          IN
          \* an outcome is drawn for a call only when the call is reached
          /\ c.err # NoErr => putOk
          /\ o.kind = "Query" => \A i \in DOMAIN order : order[i] = i
          /\ read' = c.read
          /\ queries' = Append(queries, c.read.stmt)
          /\ rowsOpen' = rowsOpen \cup OpenRows(c.read, "ReadTable", Len(queries) + 1)
          /\ pc' = "return"
          /\ IF c.err # NoErr
             THEN /\ tErr' = c.err
                  /\ writer' = c.writer
                  /\ UNCHANGED <<bucket, uploads>>
             ELSE IF ~putOk
             THEN /\ tErr' = ErrPutObject
                  /\ writer' = [w EXCEPT !.buf = <<>>]
                  /\ UNCHANGED <<bucket, uploads>>
             ELSE /\ tErr' = NoErr
                  /\ writer' = [w EXCEPT !.buf = <<>>]
                  /\ bucket' = putObject(bucket, objectName, w.buf)
                  /\ uploads' = Append(uploads, objectName)
    /\ UNCHANGED <<envVars, callVars, probe, colNames, files, runVars>>

-----------------------------------------------------------------------------
(* One table export called on its own, as the tests of storage.go do *)

InitTable ==
    /\ mode = "table"
    /\ pc = "StoreTable"
    /\ sinkKind \in {"file", "S3"}
    /\ limit \in (-1)..MaxLimit
    /\ cur = "t1"
    /\ db \in {[t \in TableUniverse |-> IF t = "t1" THEN c ELSE EmptyTable] :
                 c \in Contents}
    /\ altered = FALSE
    /\ probe = NoProbe
    /\ colNames = <<>>
    /\ writer = NewWriter
    /\ read = NoRead
    /\ tErr = NoErr
    /\ files = [n \in ArtifactNames |-> NoFile]
    /\ bucket = [n \in ArtifactNames |-> NoObject]
    /\ uploads = <<>>
    /\ rowsOpen = {}
    /\ queries = <<>>
    /\ catalog = <<>>
    /\ ruleDisable = NoRules
    /\ cliFlags = NoFlags
    /\ connection = "open"
    /\ tableNames = <<>>
    /\ idx = 0
    /\ exitStatus = NotExited
    /\ runErr = NoErr
    /\ exported = <<>>
    /\ calls = NoCalls
    /\ main = NoMain

TableNext ==
    \/ AlterTable
    \/ StoreTableIntoFileHeader
    \/ StoreTableIntoFileContent
    \/ StoreTableHeader
    \/ StoreTableContent

SpecTable == InitTable /\ [][TableNext]_vars

-----------------------------------------------------------------------------
(* ReadListOfTables *)

\* outcomes of a query that produces n rows, each row scanned in a loop
LoopOutcomes(n) ==
    {[kind |-> k, at |-> 0] : k \in {"ok", "Query"}}
    \cup {[kind |-> "Scan", at |-> j] : j \in 1..n}
    \cup {[kind |-> "Cursor", at |-> j] : j \in 0..(n - 1)}

ListResult(o, tableList, err, opened, closed) ==
    [o |-> o, tableList |-> tableList, err |-> err, opened |-> opened,
     closed |-> closed]

\* mutant of ReadListOfTables: a failed Scan ends the loop without an error
ReadListOfTables_ScanEndsLoop(cat, o) ==
    CASE o.kind = "Query" -> ListResult(o, <<>>, ErrQuery, FALSE, FALSE)
      [] o.kind = "Scan" ->
            ListResult(o, SubSeq(cat, 1, o.at - 1), NoErr, TRUE, TRUE)
      [] o.kind = "Cursor" ->
            ListResult(o, SubSeq(cat, 1, o.at), NoErr, TRUE, TRUE)
      [] OTHER -> ListResult(o, cat, NoErr, TRUE, TRUE)

\* a failed Scan returns the names read so far with the error; the loop
\* also ends when the cursor fails, and rows.Err() is not read
ReadListOfTables(cat, o) ==
    CASE o.kind = "Query" -> ListResult(o, <<>>, ErrQuery, FALSE, FALSE)
      [] o.kind = "Scan" ->
            ListResult(o, SubSeq(cat, 1, o.at - 1), ErrScan, TRUE, TRUE)
      [] o.kind = "Cursor" ->
            ListResult(o, SubSeq(cat, 1, o.at), NoErr, TRUE, TRUE)
      [] OTHER -> ListResult(o, cat, NoErr, TRUE, TRUE)

-----------------------------------------------------------------------------
(* The table names artifact *)

\* outcomes of writing an artifact of n data records: the step that fails
IoOutcomes(n) ==
    {[fail |-> f, at |-> 0] : f \in {"none", "create", "header", "flush", "close"}}
    \cup {[fail |-> "write", at |-> j] : j \in 1..n}

\* mutant of tableNamesRecords: a name that occurred earlier is left out
tableNamesRecords_Distinct(names) ==
    LET firsts == {i \in 1..Len(names) : \A j \in 1..(i - 1) : names[j] # names[i]}
        kept[i \in 0..Len(names)] ==
            IF i = 0 THEN <<>>
            ELSE IF i \in firsts THEN Append(kept[i - 1], <<names[i]>>)
            ELSE kept[i - 1]
    IN <<<<"Table name">>>> \o kept[Len(names)]

tableNamesRecords(names) ==
    <<<<"Table name">>>> \o [i \in 1..Len(names) |-> <<names[i]>>]

\* WriteAll flushes the header; a failed Write of a name is only logged,
\* sticks in the writer and is returned by writer.Error() after the Flush
storeTableNamesIntoFile(fs, fileName, names, io) ==
    LET created == osCreate(fs, fileName)
        withHeader == fileAppend(created, fileName, <<<<"Table name">>>>)
        complete == fileAppend(created, fileName, tableNamesRecords(names))
    IN
    CASE io.fail = "create" -> [files |-> fs, err |-> ErrCreate]
      [] io.fail = "header" -> [files |-> created, err |-> ErrWrite]
      [] io.fail = "write" -> [files |-> withHeader, err |-> ErrWrite]
      [] io.fail = "flush" -> [files |-> withHeader, err |-> ErrFlush]
      [] io.fail = "close" ->
            [files |-> fileClose(complete, fileName), err |-> ErrFileClose]
      [] OTHER -> [files |-> fileClose(complete, fileName), err |-> NoErr]

\* the S3 variant: the records go to a buffer, the buffer to PutObject
storeTableNames(b, objectName, names, putOk) ==
    IF putOk
    THEN [bucket |-> putObject(b, objectName, tableNamesRecords(names)),
          uploaded |-> <<objectName>>, err |-> NoErr]
    ELSE [bucket |-> b, uploaded |-> <<>>, err |-> ErrPutObject]

-----------------------------------------------------------------------------
(* The metadata artifact: record counts *)

\* mutant of ReadRecordsCount: the count is not the table's
ReadRecordsCount_Zero(tableName, content, ok) ==
    IF ok
    THEN [count |-> 0, err |-> NoErr]
    ELSE [count |-> -1, err |-> ErrScan]

\* ReadRecordsCount: SELECT count(*) and the Scan of its only row
ReadRecordsCount(tableName, content, ok) ==
    IF ok
    THEN [count |-> Len(content.rows), err |-> NoErr]
    ELSE [count |-> -1, err |-> ErrScan]

\* outcomes of TableMetadataToCSV over n tables
MetadataOutcomes(n) ==
    {[fail |-> f, at |-> 0] : f \in {"none", "header", "flush"}}
    \cup {[fail |-> f, at |-> j] : f \in {"count", "write"}, j \in 1..n}

\* mutant of TableMetadataToCSV: a table whose count query fails is skipped
TableMetadataToCSV_SkipFailed(buffer, names, database, m) ==
    LET stmt(i) == selectCountFromTable(names[i])
        row(i) ==
            <<names[i],
              ToString(ReadRecordsCount(names[i], database[names[i]], TRUE).count)>>
        kept == SelectSeq([i \in 1..Len(names) |-> i],
                          LAMBDA i : ~(m.fail = "count" /\ m.at = i))
    IN
    [records |-> <<<<"Table name", "Records">>>> \o
                 [i \in 1..Len(kept) |-> row(kept[i])],
     stmts |-> [i \in 1..Len(names) |-> stmt(i)],
     err |-> NoErr]

\* mutant of TableMetadataToCSV: the buffer is not tested for nil
TableMetadataToCSV_NoNilCheck(buffer, names, database, m) ==
    LET stmt(i) == selectCountFromTable(names[i])
        row(i) ==
            <<names[i],
              ToString(ReadRecordsCount(names[i], database[names[i]], TRUE).count)>>
        all == <<<<"Table name", "Records">>>> \o [i \in 1..Len(names) |-> row(i)]
    IN
    CASE m.fail = "header" -> [records |-> <<>>, stmts |-> <<>>, err |-> ErrWrite]
      [] m.fail = "count" ->
            [records |-> <<>>, stmts |-> [i \in 1..m.at |-> stmt(i)],
             err |-> ReadRecordsCount(names[m.at], database[names[m.at]], FALSE).err]
      [] m.fail = "write" ->
            [records |-> <<>>, stmts |-> [i \in 1..m.at |-> stmt(i)],
             err |-> ErrWrite]
      [] m.fail = "flush" ->
            [records |-> <<>>, stmts |-> [i \in 1..Len(names) |-> stmt(i)],
             err |-> ErrFlush]
      [] OTHER ->
            [records |-> all, stmts |-> [i \in 1..Len(names) |-> stmt(i)],
             err |-> NoErr]

\* records: what reached the sink (the writer is flushed at the end only);
\* stmts: the count queries issued
TableMetadataToCSV(buffer, names, database, m) ==
    LET stmt(i) == selectCountFromTable(names[i])
        row(i) ==
            <<names[i],
              ToString(ReadRecordsCount(names[i], database[names[i]], TRUE).count)>>
        all == <<<<"Table name", "Records">>>> \o [i \in 1..Len(names) |-> row(i)]
    IN
    CASE buffer = "nil" ->
            [records |-> <<>>, stmts |-> <<>>, err |-> ErrBufferIsNil]
      [] m.fail = "header" -> [records |-> <<>>, stmts |-> <<>>, err |-> ErrWrite]
      [] m.fail = "count" ->
            [records |-> <<>>, stmts |-> [i \in 1..m.at |-> stmt(i)],
             err |-> ReadRecordsCount(names[m.at], database[names[m.at]], FALSE).err]
      [] m.fail = "write" ->
            [records |-> <<>>, stmts |-> [i \in 1..m.at |-> stmt(i)],
             err |-> ErrWrite]
      [] m.fail = "flush" ->
            [records |-> <<>>, stmts |-> [i \in 1..Len(names) |-> stmt(i)],
             err |-> ErrFlush]
      [] OTHER ->
            [records |-> all, stmts |-> [i \in 1..Len(names) |-> stmt(i)],
             err |-> NoErr]

\* f: "create", "close" or "none"; m: the outcome of TableMetadataToCSV
StoreTableMetadataIntoFile(fs, fileName, names, database, f, m) ==
    LET created == osCreate(fs, fileName)
        c == TableMetadataToCSV("fout", names, database, m)
        complete == fileClose(fileAppend(created, fileName, c.records), fileName)
    IN
    IF f = "create" THEN [files |-> fs, stmts |-> <<>>, err |-> ErrCreate]
    ELSE IF c.err # NoErr
    THEN [files |-> created, stmts |-> c.stmts, err |-> c.err]
    ELSE [files |-> complete, stmts |-> c.stmts,
          err |-> IF f = "close" THEN ErrFileClose ELSE NoErr]

StoreTableMetadataIntoS3(b, objectName, names, database, m, putOk) ==
    LET c == TableMetadataToCSV("buffer", names, database, m) IN
    IF c.err # NoErr
    THEN [bucket |-> b, uploaded |-> <<>>, stmts |-> c.stmts, err |-> c.err]
    ELSE IF ~putOk
    THEN [bucket |-> b, uploaded |-> <<>>, stmts |-> c.stmts, err |-> ErrPutObject]
    ELSE [bucket |-> putObject(b, objectName, c.records),
          uploaded |-> <<objectName>>, stmts |-> c.stmts, err |-> NoErr]

-----------------------------------------------------------------------------
(* The disabled rules artifact *)

selectDisabledRules ==
    Statement("SELECT rule_id, count(rule_id) FROM", "rule_disable", <<>>)

DisabledRuleInfo(rule, count) == [Rule |-> rule, Count |-> count]

\* mutant of DisabledRulesRows: HAVING count(rule_id) >= 1
DisabledRulesRows_AtLeastOne(rd) ==
    LET G == {r \in Rules : rd[r] >= 1} IN
    {s \in [1..Cardinality(G) -> G] :
        /\ \A i, j \in 1..Cardinality(G) : i # j => s[i] # s[j]
        /\ \A i \in 1..(Cardinality(G) - 1) : rd[s[i]] >= rd[s[i + 1]]}

\* what selectDisabledRules produces: the rules with count > 1, ordered by
\* count descending, rules of equal count in any order
DisabledRulesRows(rd) ==
    LET G == {r \in Rules : rd[r] > 1} IN
    {s \in [1..Cardinality(G) -> G] :
        /\ \A i, j \in 1..Cardinality(G) : i # j => s[i] # s[j]
        /\ \A i \in 1..(Cardinality(G) - 1) : rd[s[i]] >= rd[s[i + 1]]}

\* order: the rows as the query produced them
ReadDisabledRules(rd, order, o) ==
    LET info(n) == [i \in 1..n |-> DisabledRuleInfo(order[i], rd[order[i]])] IN
    CASE o.kind = "Query" ->
            [o |-> o, disabledRulesInfo |-> <<>>, err |-> ErrQuery,
             opened |-> FALSE, closed |-> FALSE]
      [] o.kind = "Scan" ->
            [o |-> o, disabledRulesInfo |-> info(o.at - 1), err |-> ErrScan,
             opened |-> TRUE, closed |-> TRUE]
      [] o.kind = "Cursor" ->
            [o |-> o, disabledRulesInfo |-> info(o.at), err |-> NoErr,
             opened |-> TRUE, closed |-> TRUE]
      [] OTHER ->
            [o |-> o, disabledRulesInfo |-> info(Len(order)), err |-> NoErr,
             opened |-> TRUE, closed |-> TRUE]

disabledRulesRecords(info) ==
    <<<<"Rule", "Count">>>> \o
    [i \in 1..Len(info) |-> <<info[i].Rule, ToString(info[i].Count)>>]

\* mutant of DisabledRulesToCSV: rules of count 1 or less are left out
DisabledRulesToCSV_Filtered(buffer, info, io) ==
    CASE buffer = "nil" -> [records |-> <<>>, err |-> ErrBufferIsNil]
      [] io.fail = "header" -> [records |-> <<>>, err |-> ErrWrite]
      [] io.fail = "write" -> [records |-> <<<<"Rule", "Count">>>>, err |-> ErrWrite]
      [] io.fail = "flush" -> [records |-> <<<<"Rule", "Count">>>>, err |-> ErrFlush]
      [] OTHER ->
           [records |-> disabledRulesRecords(SelectSeq(info, LAMBDA d : d.Count > 1)),
            err |-> NoErr]

\* records: what reached the sink. WriteAll flushes the header; the first
\* failed Write of a rule is returned at once
DisabledRulesToCSV(buffer, info, io) ==
    CASE buffer = "nil" -> [records |-> <<>>, err |-> ErrBufferIsNil]
      [] io.fail = "header" -> [records |-> <<>>, err |-> ErrWrite]
      [] io.fail = "write" -> [records |-> <<<<"Rule", "Count">>>>, err |-> ErrWrite]
      [] io.fail = "flush" -> [records |-> <<<<"Rule", "Count">>>>, err |-> ErrFlush]
      [] OTHER -> [records |-> disabledRulesRecords(info), err |-> NoErr]

storeDisabledRulesIntoFile(fs, fileName, info, io) ==
    LET created == osCreate(fs, fileName)
        c == DisabledRulesToCSV("fout", info, io)
        written == fileAppend(created, fileName, c.records)
    IN
    IF io.fail = "create" THEN [files |-> fs, err |-> ErrCreate]
    ELSE IF c.err # NoErr THEN [files |-> written, err |-> c.err]
    ELSE [files |-> fileClose(written, fileName),
          err |-> IF io.fail = "close" THEN ErrFileClose ELSE NoErr]

storeDisabledRulesIntoS3(b, objectName, info, putOk) ==
    LET c == DisabledRulesToCSV("buffer", info, [fail |-> "none", at |-> 0]) IN
    IF putOk
    THEN [bucket |-> putObject(b, objectName, c.records),
          uploaded |-> <<objectName>>, err |-> NoErr]
    ELSE [bucket |-> b, uploaded |-> <<>>, err |-> ErrPutObject]

-----------------------------------------------------------------------------
(* performDataExport: the whole run *)

selectListOfTables ==
    Statement("SELECT tablename FROM", "pg_catalog.pg_tables", <<>>)

\* return code, err
Exit(code, err) ==
    /\ exitStatus' = code
    /\ runErr' = err
    /\ pc' = "exit"

\* mutant of outputSwitch: an unknown output is exported to files
outputSwitch_DefaultFile(output) ==
    CASE output = s3Output -> "S3"
      [] OTHER -> "file"

\* switch cliFlags.Output: the export the run goes on with ("": none)
outputSwitch(output) ==
    CASE output = s3Output -> "S3"
      [] output = fileOutput -> "file"
      [] OTHER -> ""

\* NewStorage and the switch on cliFlags.Output
performDataExport ==
    /\ mode = "run"
    /\ pc = "performDataExport"
    /\ \E storageOk \in BOOLEAN :
          IF ~storageOk
          THEN /\ Exit(ExitStatusStorageError, ErrNewStorage)
               /\ UNCHANGED <<connection, sinkKind>>
          ELSE /\ connection' = "open"
               /\ CASE outputSwitch(cliFlags.Output) = "S3" ->
                          /\ sinkKind' = "S3"
                          /\ pc' = "performDataExportToS3"
                          /\ UNCHANGED <<exitStatus, runErr>>
                    [] outputSwitch(cliFlags.Output) = "file" ->
                          /\ sinkKind' = "file"
                          /\ pc' = "performDataExportToFiles"
                          /\ UNCHANGED <<exitStatus, runErr>>
                    [] OTHER ->
                          /\ Exit(ExitStatusConfigurationError, ErrUnknownOutput)
                          /\ UNCHANGED sinkKind
    /\ UNCHANGED <<envVars, mode, limit, cur, tableVars, sinkVars, rowsOpen,
                   queries, cliFlags, main, tableNames, idx, exported, calls>>

\* ReadListOfTables as the run calls it
readListOfTables(o) ==
    LET r == ReadListOfTables(catalog, o) IN
    /\ queries' = Append(queries, selectListOfTables)
    /\ rowsOpen' = rowsOpen \cup OpenRows(r, "ReadListOfTables", Len(queries) + 1)
    /\ calls' = [calls EXCEPT !.list =
                    Call(NoCall.io, NoCall.m, o, r.tableList, r.err)]
    /\ IF r.err # NoErr
       THEN /\ Exit(ExitStatusStorageError, r.err)
            /\ UNCHANGED tableNames
       ELSE /\ tableNames' = r.tableList
            /\ pc' = "exportMetadata"
            /\ UNCHANGED <<exitStatus, runErr>>

\* performDataExportToS3 up to the list of tables: NewS3Connection first
performDataExportToS3 ==
    /\ pc = "performDataExportToS3"
    /\ \E s3Ok \in BOOLEAN, o \in LoopOutcomes(Len(catalog)) :
          IF ~s3Ok
          THEN /\ o.kind = "ok"
               /\ Exit(ExitStatusS3Error, ErrNewS3Connection)
               /\ UNCHANGED <<queries, rowsOpen, tableNames, calls>>
          ELSE readListOfTables(o)
    /\ UNCHANGED <<envVars, callVars, tableVars, sinkVars, cliFlags, main,
                   connection, idx, exported>>

\* performDataExportToFiles up to the list of tables
performDataExportToFiles ==
    /\ pc = "performDataExportToFiles"
    /\ \E o \in LoopOutcomes(Len(catalog)) : readListOfTables(o)
    /\ UNCHANGED <<envVars, callVars, tableVars, sinkVars, cliFlags, main,
                   connection, idx, exported>>

\* if exportMetadata { ... }: the table names, then the record counts
exportMetadata ==
    /\ pc = "exportMetadata"
    /\ IF ~cliFlags.ExportMetadata
       THEN /\ pc' = "exportDisabledRules"
            /\ UNCHANGED <<sinkVars, queries, exitStatus, runErr, calls>>
       ELSE IF sinkKind = "file"
       THEN \E io \in IoOutcomes(Len(tableNames)),
               f \in {"none", "create", "close"},
               m \in MetadataOutcomes(Len(tableNames)) :
               LET a == storeTableNamesIntoFile(files, listOfTables,
                                                tableNames, io)
                   b == StoreTableMetadataIntoFile(a.files, metadataTable,
                                                   tableNames, db, f, m)
                   ca == Call(io, NoCall.m, NoCall.o, tableNames, a.err)
                   cb == Call([fail |-> f, at |-> 0], m, NoCall.o, tableNames,
                              b.err)
               IN
               IF a.err # NoErr
               THEN /\ f = "none" /\ m.fail = "none"
                    /\ files' = a.files
                    /\ calls' = [calls EXCEPT !.tableNames = ca]
                    /\ Exit(ExitStatusStorageError, a.err)
                    /\ UNCHANGED <<bucket, uploads, queries>>
               ELSE /\ f # "none" => m.fail = "none"
                    /\ files' = b.files
                    /\ calls' = [calls EXCEPT !.tableNames = ca, !.metadata = cb]
                    /\ queries' = queries \o b.stmts
                    /\ UNCHANGED <<bucket, uploads>>
                    /\ IF b.err # NoErr
                       THEN Exit(ExitStatusStorageError, b.err)
                       ELSE /\ pc' = "exportDisabledRules"
                            /\ UNCHANGED <<exitStatus, runErr>>
       ELSE \E put1 \in BOOLEAN, put2 \in BOOLEAN,
               m \in {x \in MetadataOutcomes(Len(tableNames)) :
                        x.fail \in {"none", "count"}} :
               LET a == storeTableNames(bucket, listOfTables, tableNames, put1)
                   b == StoreTableMetadataIntoS3(a.bucket, metadataTable,
                                                 tableNames, db, m, put2)
                   putIo(ok) == [fail |-> IF ok THEN "none" ELSE "put", at |-> 0]
                   ca == Call(putIo(put1), NoCall.m, NoCall.o, tableNames, a.err)
                   cb == Call(putIo(put2), m, NoCall.o, tableNames, b.err)
               IN
               IF a.err # NoErr
               THEN /\ put2 /\ m.fail = "none"
                    /\ calls' = [calls EXCEPT !.tableNames = ca]
                    /\ Exit(ExitStatusStorageError, a.err)
                    /\ UNCHANGED <<files, bucket, uploads, queries>>
               ELSE /\ m.fail # "none" => put2
                    /\ bucket' = b.bucket
                    /\ calls' = [calls EXCEPT !.tableNames = ca, !.metadata = cb]
                    /\ uploads' = uploads \o a.uploaded \o b.uploaded
                    /\ queries' = queries \o b.stmts
                    /\ UNCHANGED files
                    /\ IF b.err # NoErr
                       THEN Exit(ExitStatusStorageError, b.err)
                       ELSE /\ pc' = "exportDisabledRules"
                            /\ UNCHANGED <<exitStatus, runErr>>
    /\ UNCHANGED <<envVars, callVars, tableVars, rowsOpen, cliFlags, main,
                   connection, tableNames, idx, exported>>

\* if exportDisabledRules { ... }: ReadDisabledRules, then the artifact
exportDisabledRules ==
    /\ pc = "exportDisabledRules"
    /\ IF ~cliFlags.ExportDisabledRules
       THEN /\ pc' = "exportTables"
            /\ UNCHANGED <<sinkVars, queries, rowsOpen, exitStatus, runErr,
                           calls>>
       ELSE \E order \in DisabledRulesRows(ruleDisable) :
            \E o \in LoopOutcomes(Len(order)), io \in IoOutcomes(Len(order)),
               putOk \in BOOLEAN :
               LET r == ReadDisabledRules(ruleDisable, order, o)
                   info == r.disabledRulesInfo
                   a == storeDisabledRulesIntoFile(files, disabledRules, info, io)
                   b == storeDisabledRulesIntoS3(bucket, disabledRules, info, putOk)
                   err == IF sinkKind = "file" THEN a.err ELSE b.err
                   used == IF sinkKind = "file" THEN io
                           ELSE [fail |-> IF putOk THEN "none" ELSE "put", at |-> 0]
               IN
               /\ io.at <= Len(info)
               /\ IF sinkKind = "file" THEN putOk ELSE io.fail = "none"
               /\ queries' = Append(queries, selectDisabledRules)
               /\ rowsOpen' = rowsOpen
                     \cup OpenRows(r, "ReadDisabledRules", Len(queries) + 1)
               /\ IF r.err # NoErr
                  THEN /\ io.fail = "none" /\ putOk
                       /\ calls' = [calls EXCEPT !.disabledRules =
                                       Call(NoCall.io, NoCall.m, o, order, r.err)]
                       /\ Exit(ExitStatusStorageError, r.err)
                       /\ UNCHANGED sinkVars
                  ELSE /\ calls' = [calls EXCEPT !.disabledRules =
                                       Call(used, NoCall.m, o, info, err)]
                       /\ IF sinkKind = "file"
                          THEN /\ files' = a.files
                               /\ UNCHANGED <<bucket, uploads>>
                          ELSE /\ bucket' = b.bucket
                               /\ uploads' = uploads \o b.uploaded
                               /\ UNCHANGED files
                       /\ IF err # NoErr
                          THEN Exit(ExitStatusIOError, err)
                          ELSE /\ pc' = "exportTables"
                               /\ UNCHANGED <<exitStatus, runErr>>
    /\ UNCHANGED <<envVars, callVars, tableVars, cliFlags, main, connection,
                   tableNames, idx, exported>>

\* for _, tableName := range tableNames: the call of the next table export
exportTables ==
    /\ pc = "exportTables"
    /\ idx < Len(tableNames)
    /\ idx' = idx + 1
    /\ cur' = tableNames[idx + 1]
    /\ probe' = NoProbe
    /\ colNames' = <<>>
    /\ writer' = NewWriter
    /\ read' = NoRead
    /\ tErr' = NoErr
    /\ pc' = "StoreTable"
    /\ UNCHANGED <<envVars, mode, sinkKind, limit, sinkVars, rowsOpen, queries,
                   cliFlags, main, connection, tableNames, exitStatus, runErr,
                   exported, calls>>

\* the records of the artifact of the table in export
Output ==
    IF sinkKind = "file"
    THEN files[ArtifactName(cur)].content
    ELSE bucket[ArtifactName(cur)].content

\* what a table export that returned nil has left: the artifact, and what
\* its ReadTable did
Exported(tableName, records, r) ==
    [name |-> tableName, records |-> records, read |-> r]

\* if err != nil after a table export
abortsOn_Never(err) == FALSE

abortsOn(err) == err # NoErr

\* the table export has returned to the loop
tableExported ==
    /\ mode = "run"
    /\ pc = "return"
    /\ IF abortsOn(tErr)
       THEN /\ Exit(ExitStatusStorageError, tErr)
            /\ UNCHANGED exported
       ELSE /\ pc' = "exportTables"
            /\ exported' = Append(exported, Exported(cur, Output, read))
            /\ UNCHANGED <<exitStatus, runErr>>
    /\ UNCHANGED <<envVars, callVars, tableVars, sinkVars, rowsOpen, queries,
                   cliFlags, main, connection, tableNames, idx, calls>>

\* storage.Close() after the last table
closeStorage ==
    /\ pc = "exportTables"
    /\ idx = Len(tableNames)
    /\ \E ok \in BOOLEAN :
          /\ connection' = IF ok THEN "closed" ELSE connection
          /\ IF ok
             THEN Exit(ExitStatusOK, NoErr)
             ELSE Exit(ExitStatusStorageError, ErrConnClose)
    /\ UNCHANGED <<envVars, callVars, tableVars, sinkVars, rowsOpen, queries,
                   cliFlags, main, tableNames, idx, exported, calls>>

\* the database of a run: one table with a row, the other tables empty
RunDatabase ==
    [t \in TableUniverse |->
        IF t = "t1"
        THEN Table(<<ColumnPool[1], ColumnPool[2]>>, 1, 1)
        ELSE Table(<<ColumnPool[2]>>, 1, 0)]

RunRules ==
    {NoRules,
     [r \in Rules |-> CASE r = "ruleA" -> 1 [] r = "ruleB" -> 3 [] OTHER -> 2],
     [r \in Rules |-> CASE r = "ruleA" -> 2 [] r = "ruleB" -> 2 [] OTHER -> 0]}

Init ==
    /\ mode = "run"
    /\ pc = "performDataExport"
    /\ sinkKind = ""
    /\ limit = 0
    /\ cur = ""
    /\ catalog \in SeqsOf(TableUniverse, 0, MaxTables)
    /\ ruleDisable \in RunRules
    /\ db = RunDatabase
    /\ altered = FALSE
    /\ probe = NoProbe
    /\ colNames = <<>>
    /\ writer = NewWriter
    /\ read = NoRead
    /\ tErr = NoErr
    /\ files = [n \in ArtifactNames |-> NoFile]
    /\ bucket = [n \in ArtifactNames |-> NoObject]
    /\ uploads = <<>>
    /\ rowsOpen = {}
    /\ queries = <<>>
    /\ cliFlags \in {Flags(o, m, d) : o \in {s3Output, fileOutput, "stdout"},
                                      m \in BOOLEAN, d \in BOOLEAN}
    /\ connection = "none"
    /\ tableNames = <<>>
    /\ idx = 0
    /\ exitStatus = NotExited
    /\ runErr = NoErr
    /\ exported = <<>>
    /\ calls = NoCalls
    /\ main = NoMain

Next ==
    \/ performDataExport
    \/ performDataExportToS3
    \/ performDataExportToFiles
    \/ exportMetadata
    \/ exportDisabledRules
    \/ exportTables
    \/ AlterTable
    \/ StoreTableIntoFileHeader
    \/ StoreTableIntoFileContent
    \/ StoreTableHeader
    \/ StoreTableContent
    \/ tableExported
    \/ closeStorage

Spec == Init /\ [][Next]_vars

-----------------------------------------------------------------------------
(* The same table exported twice to the same kind of sink *)

\* the first export has returned nil and the caller exports the table again
exportAgain ==
    /\ mode = "twice"
    /\ pc = "return"
    /\ idx = 1
    /\ tErr = NoErr
    /\ exported' = Append(exported, Exported(cur, Output, read))
    /\ idx' = 2
    /\ probe' = NoProbe
    /\ colNames' = <<>>
    /\ writer' = NewWriter
    /\ read' = NoRead
    /\ pc' = "StoreTable"
    /\ UNCHANGED <<envVars, callVars, tErr, sinkVars, rowsOpen, queries,
                   cliFlags, main, connection, tableNames, exitStatus, runErr,
                   calls>>

\* the tables exported twice: the first columns of the pool
TwiceContents ==
    {Table(SubSeq(ColumnPool, 1, MaxCols), 1, n) : n \in 0..MaxRows}

InitTwice ==
    /\ mode = "twice"
    /\ pc = "StoreTable"
    /\ sinkKind \in {"file", "S3"}
    /\ limit \in {0, MaxLimit}
    /\ cur = "t1"
    /\ db \in {[t \in TableUniverse |-> IF t = "t1" THEN c ELSE EmptyTable] :
                 c \in TwiceContents}
    /\ altered = FALSE
    /\ probe = NoProbe
    /\ colNames = <<>>
    /\ writer = NewWriter
    /\ read = NoRead
    /\ tErr = NoErr
    /\ files = [n \in ArtifactNames |-> NoFile]
    /\ bucket = [n \in ArtifactNames |-> NoObject]
    /\ uploads = <<>>
    /\ rowsOpen = {}
    /\ queries = <<>>
    /\ catalog = <<>>
    /\ ruleDisable = NoRules
    /\ cliFlags = NoFlags
    /\ connection = "open"
    /\ tableNames = <<>>
    /\ idx = 1
    /\ exitStatus = NotExited
    /\ runErr = NoErr
    /\ exported = <<>>
    /\ calls = NoCalls
    /\ main = NoMain

NextTwice ==
    \/ AlterTable
    \/ StoreTableIntoFileHeader
    \/ StoreTableIntoFileContent
    \/ StoreTableHeader
    \/ StoreTableContent
    \/ exportAgain

SpecTwice == InitTwice /\ [][NextTwice]_vars

-----------------------------------------------------------------------------
(* The conversions to CSV called on their own, as the tests of csv.go do *)

\* the sinks a caller can hand over: nil, or a writer whose writes can fail
Sinks == {"nil", "writer"}

\* the lists a caller can hand to DisabledRulesToCSV: any rules, any counts,
\* any order, repetitions included
RuleLists ==
    SeqsOf({DisabledRuleInfo(r, c) : r \in Rules, c \in 0..MaxCount},
           0, MaxRuleList)

\* DisabledRulesToCSV(buffer, disabledRulesInfo)
callDisabledRulesToCSV ==
    /\ mode = "csv"
    /\ pc = "call"
    /\ \E buffer \in Sinks,
          io \in {x \in IoOutcomes(Len(calls.disabledRules.given)) :
                    x.fail \in {"none", "header", "write", "flush"}} :
          LET info == calls.disabledRules.given
              c == DisabledRulesToCSV(buffer, info, io)
          IN
          /\ buffer = "nil" => io.fail = "none"
          /\ calls' = [calls EXCEPT !.disabledRules =
                          Converted(buffer, io, NoCall.m, info, c.records, c.err)]
    /\ pc' = "done"
    /\ UNCHANGED <<envVars, callVars, tableVars, sinkVars, rowsOpen, queries,
                   cliFlags, main, connection, tableNames, idx, exitStatus, runErr,
                   exported>>

\* TableMetadataToCSV(buffer, tableNames, storage)
callTableMetadataToCSV ==
    /\ mode = "csv"
    /\ pc = "call"
    /\ \E buffer \in Sinks, m \in MetadataOutcomes(Len(tableNames)) :
          LET c == TableMetadataToCSV(buffer, tableNames, db, m) IN
          /\ buffer = "nil" => m.fail = "none"
          /\ queries' = queries \o c.stmts
          /\ calls' = [calls EXCEPT !.metadata =
                          Converted(buffer, NoCall.io, m, tableNames, c.records,
                                    c.err)]
    /\ pc' = "done"
    /\ UNCHANGED <<envVars, callVars, tableVars, sinkVars, rowsOpen, cliFlags, main,
                   connection, tableNames, idx, exitStatus, runErr, exported>>

InitCSV ==
    /\ mode = "csv"
    /\ pc = "call"
    /\ sinkKind = ""
    /\ limit = 0
    /\ cur = ""
    /\ catalog = <<>>
    /\ ruleDisable = NoRules
    /\ db = RunDatabase
    /\ altered = FALSE
    /\ probe = NoProbe
    /\ colNames = <<>>
    /\ writer = NewWriter
    /\ read = NoRead
    /\ tErr = NoErr
    /\ files = [n \in ArtifactNames |-> NoFile]
    /\ bucket = [n \in ArtifactNames |-> NoObject]
    /\ uploads = <<>>
    /\ rowsOpen = {}
    /\ queries = <<>>
    /\ cliFlags = NoFlags
    /\ connection = "open"
    /\ idx = 0
    /\ exitStatus = NotExited
    /\ runErr = NoErr
    /\ exported = <<>>
    /\ \/ /\ tableNames = <<>>
          /\ calls \in {[NoCalls EXCEPT !.disabledRules.given = info] :
                          info \in RuleLists}
       \/ /\ tableNames \in SeqsOf(TableUniverse, 1, MaxTables)
          /\ calls = NoCalls
    /\ main = NoMain

NextCSV ==
    \/ callDisabledRulesToCSV
    \/ callTableMetadataToCSV

SpecCSV == InitCSV /\ [][NextCSV]_vars

-----------------------------------------------------------------------------
(* mainWithStatusCode: the operation log and the selected operation *)

\* mutant of selectedOperation: the check of the S3 connection comes first
selectedOperation_CheckFirst(flags) ==
    IF flags.CheckS3Connection THEN "checkS3Connection"
    ELSE IF flags.ShowVersion THEN "showVersion"
    ELSE IF flags.ShowAuthors THEN "showAuthors"
    ELSE IF flags.ShowConfiguration THEN "showConfiguration"
    ELSE "performDataExport"

\* the switch of doSelectedOperation: the first case that is true
selectedOperation(flags) ==
    IF flags.ShowVersion THEN "showVersion"
    ELSE IF flags.ShowAuthors THEN "showAuthors"
    ELSE IF flags.ShowConfiguration THEN "showConfiguration"
    ELSE IF flags.CheckS3Connection THEN "checkS3Connection"
    ELSE "performDataExport"

\* checkS3Connection: client is NewS3Connection without error, existsErr the
\* error of s3BucketExists, found what BucketExists answered. A bucket that
\* is not found is logged only.
checkS3Connection(client, existsErr, found) ==
    LET seen == [called |-> TRUE, client |-> client, existsErr |-> existsErr,
                 found |-> found]
    IN
    IF ~client
    THEN [code |-> ExitStatusS3Error, err |-> ErrNewS3Connection, check |-> seen]
    ELSE IF existsErr
    THEN [code |-> ExitStatusS3Error, err |-> ErrBucketExists, check |-> seen]
    ELSE [code |-> ExitStatusOK, err |-> NoErr, check |-> seen]

\* createOperationLog: the logger, the first record it wrote and the error
createOperationLog(flags, createOk) ==
    IF ~flags.ExportLog
    THEN [logger |-> "dummy", record |-> <<>>, err |-> NoErr]
    ELSE CASE flags.Output = s3Output ->
                 [logger |-> "memory", record |-> <<"Memory logger initialized">>,
                  err |-> NoErr]
           [] flags.Output = fileOutput ->
                 IF createOk
                 THEN [logger |-> "file", record |-> <<"File logger initialized">>,
                       err |-> NoErr]
                 ELSE [logger |-> "dummy", record |-> <<>>, err |-> ErrCreate]
           [] OTHER ->
                 [logger |-> "dummy", record |-> <<>>, err |-> ErrUnknownOutput]

\* mutant of logToS3: the output is not looked at
logToS3_AnyOutput(flags) == flags.ExportLog

\* if cliFlags.ExportLog && cliFlags.Output == s3Output
logToS3(flags) == flags.ExportLog /\ flags.Output = s3Output

\* storeOpertionLogIntoS3: NewS3Connection, then storeBufferToS3
storeOpertionLogIntoS3(b, buffer, client, putOk) ==
    IF ~client
    THEN [bucket |-> b, uploaded |-> <<>>, err |-> ErrNewS3Connection]
    ELSE IF ~putOk
    THEN [bucket |-> b, uploaded |-> <<>>, err |-> ErrPutObject]
    ELSE [bucket |-> putObject(b, logFile, buffer), uploaded |-> <<logFile>>,
          err |-> NoErr]

\* mainWithStatusCode up to the selected operation: InitLogging and
\* createOperationLog (a configuration that fails to load is logged only)
mainWithStatusCode ==
    /\ pc = "mainWithStatusCode"
    /\ \E loggingOk \in BOOLEAN, createOk \in BOOLEAN :
          LET l == createOperationLog(cliFlags, createOk) IN
          /\ ~loggingOk => createOk
          /\ IF ~loggingOk
             THEN /\ main' = [main EXCEPT !.status = ExitStatusLoggingError]
                  /\ pc' = "exited"
                  /\ UNCHANGED files
             ELSE IF l.err # NoErr
             THEN /\ main' = [main EXCEPT !.status = ExitStatusIOError]
                  /\ pc' = "exited"
                  /\ UNCHANGED files
             ELSE /\ main' = [main EXCEPT !.logger = l.logger,
                                          !.buffer = IF l.logger = "memory"
                                                     THEN l.record ELSE <<>>]
                  /\ files' = IF l.logger = "file"
                              THEN fileAppend(osCreate(files, logFile), logFile,
                                              <<l.record>>)
                              ELSE files
                  /\ pc' = "doSelectedOperation"
    /\ UNCHANGED <<envVars, callVars, tableVars, bucket, uploads, rowsOpen,
                   queries, cliFlags, connection, tableNames, idx, exitStatus,
                   runErr, exported, calls>>

\* doSelectedOperation: the operations other than the data export return
\* here; the data export goes on in performDataExport
doSelectedOperation ==
    /\ pc = "doSelectedOperation"
    /\ LET op == selectedOperation(cliFlags) IN
       CASE op \in {"showVersion", "showAuthors", "showConfiguration"} ->
                /\ main' = [main EXCEPT !.operation = op]
                /\ Exit(ExitStatusOK, NoErr)
         [] op = "checkS3Connection" ->
                \E client \in BOOLEAN, existsErr \in BOOLEAN, found \in BOOLEAN :
                   LET c == checkS3Connection(client, existsErr, found) IN
                   /\ ~client => (~existsErr /\ ~found)
                   /\ existsErr => ~found
                   /\ main' = [main EXCEPT !.operation = op, !.check = c.check]
                   /\ Exit(c.code, c.err)
         [] OTHER ->
                /\ main' = [main EXCEPT !.operation = op]
                /\ pc' = "performDataExport"
                /\ UNCHANGED <<exitStatus, runErr>>
    /\ UNCHANGED <<envVars, callVars, tableVars, sinkVars, rowsOpen, queries,
                   cliFlags, connection, tableNames, idx, exported, calls>>

\* mainWithStatusCode after the selected operation has returned
operationReturned ==
    /\ pc = "exit"
    /\ main.called
    /\ pc' = "exited"
    /\ IF runErr # NoErr
       THEN /\ main' = [main EXCEPT !.status = exitStatus]
            /\ UNCHANGED <<bucket, uploads>>
       ELSE IF logToS3(cliFlags)
       THEN \E client \in BOOLEAN, putOk \in BOOLEAN :
               LET u == storeOpertionLogIntoS3(bucket, main.buffer, client, putOk)
               IN
               /\ ~client => putOk
               /\ bucket' = u.bucket
               /\ uploads' = uploads \o u.uploaded
               /\ main' = [main EXCEPT
                              !.upload = IF u.err = NoErr THEN "ok" ELSE u.err,
                              !.status = IF u.err = NoErr THEN ExitStatusOK
                                         ELSE ExitStatusS3Error]
       ELSE /\ main' = [main EXCEPT !.status = ExitStatusOK]
            /\ UNCHANGED <<bucket, uploads>>
    /\ UNCHANGED <<envVars, callVars, tableVars, files, rowsOpen, queries,
                   cliFlags, connection, tableNames, idx, exitStatus, runErr,
                   exported, calls>>

\* the command lines: every combination of the flags
MainFlags ==
    [ShowVersion : BOOLEAN, ShowAuthors : BOOLEAN, ShowConfiguration : BOOLEAN,
     CheckS3Connection : BOOLEAN, ExportLog : BOOLEAN,
     Output : {s3Output, fileOutput, "stdout"}, ExportMetadata : BOOLEAN,
     ExportDisabledRules : BOOLEAN]

InitMain ==
    /\ mode = "run"
    /\ pc = "mainWithStatusCode"
    /\ sinkKind = ""
    /\ limit = 0
    /\ cur = ""
    /\ catalog \in SeqsOf(TableUniverse, 0, 1)
    /\ ruleDisable \in RunRules
    /\ db = RunDatabase
    /\ altered = FALSE
    /\ probe = NoProbe
    /\ colNames = <<>>
    /\ writer = NewWriter
    /\ read = NoRead
    /\ tErr = NoErr
    /\ files = [n \in ArtifactNames |-> NoFile]
    /\ bucket = [n \in ArtifactNames |-> NoObject]
    /\ uploads = <<>>
    /\ rowsOpen = {}
    /\ queries = <<>>
    /\ cliFlags \in MainFlags
    /\ connection = "none"
    /\ tableNames = <<>>
    /\ idx = 0
    /\ exitStatus = NotExited
    /\ runErr = NoErr
    /\ exported = <<>>
    /\ calls = NoCalls
    /\ main = [NoMain EXCEPT !.called = TRUE]

NextMain ==
    \/ mainWithStatusCode
    \/ doSelectedOperation
    \/ operationReturned
    \/ Next

SpecMain == InitMain /\ [][NextMain]_vars

-----------------------------------------------------------------------------
(* Properties of one table export *)

Returned == pc = "return"

\* C1: within one table export the column list captured by the probe is the
\* list used for the header and for every data record, and the columns
\* decoded by ReadTable are the columns of the header, whatever the table
\* looked like at the probe query and at the full-table query.
C1_DecodedColumnsAreHeaderColumns ==
    (Returned /\ read.called /\ read.err = NoErr) =>
        /\ colNames = getColumnNames(probe.columnTypes)
        /\ getColumnNames(read.columnTypes) = colNames
        /\ \A i \in 1..Len(read.finalRows) :
              DOMAIN read.finalRows[i] = Range(colNames)

SameWidth(records) ==
    \A i \in 1..Len(records) : Len(records[i]) = Len(records[1])

\* C2: every data record written by a table export has as many fields as
\* the header record, in the writer's buffer, in the file and in the object,
\* for tables with 0, 1 or more rows.
C2_RecordsAsWideAsHeader ==
    /\ SameWidth(writer.buf)
    /\ writer.buf # <<>> => Len(writer.buf[1]) = Len(colNames)
    /\ \A n \in ArtifactNames :
          /\ SameWidth(files[n].content)
          /\ SameWidth(bucket[n].content)
    /\ (Returned /\ tErr = NoErr) =>
          /\ Len(Output) = 1 + Len(read.finalRows)
          /\ Len(Output[1]) = Len(colNames)

\* two data records were written after a header whose width is not the
\* number of columns ReadTable decoded
C2_Witness ==
    /\ Returned
    /\ tErr = NoErr
    /\ Len(Output) = 3
    /\ Len(read.columnTypes) < Len(colNames)

\* the mapping as documented: type name -> scan slot
DocumentedScanKind(typeName) ==
    IF typeName \in {"VARCHAR", "TEXT", "UUID", "TIMESTAMP"} THEN "NullString"
    ELSE IF typeName = "BOOL" THEN "NullBool"
    ELSE IF typeName = "INT4" THEN "NullInt64"
    ELSE "NullString"

GoTypeOf(kind) ==
    IF kind = "NullBool" THEN "bool"
    ELSE IF kind = "NullInt64" THEN "int64"
    ELSE "string"

\* C3: fillInScanArgs gives one slot per column, in column order, chosen
\* from the type name alone: nullable string for VARCHAR, TEXT, UUID,
\* TIMESTAMP and every unlisted name, nullable bool for BOOL, nullable
\* 64-bit integer for INT4; each decoded value has the slot's Go type.
C3_ScanSlotPerColumn ==
    (read.called /\ read.fetched > 0) =>
        /\ Len(read.scanArgs) = Len(read.columnTypes)
        /\ \A i \in 1..Len(read.columnTypes) :
              /\ read.scanArgs[i] = DocumentedScanKind(read.columnTypes[i].type)
              /\ \A r \in 1..Len(read.finalRows) :
                    read.finalRows[r][read.columnTypes[i].name].k =
                        GoTypeOf(DocumentedScanKind(read.columnTypes[i].type))

\* a row of an INT4 column and a column of an unlisted type was decoded
C3_Witness ==
    /\ read.called
    /\ read.err = NoErr
    /\ Len(read.finalRows) > 0
    /\ \E i, j \in 1..Len(read.columnTypes) :
          /\ read.columnTypes[i].type = "INT4"
          /\ read.columnTypes[j].type = "FLOAT64"

\* C4: RetrieveColumnTypes has released the result set it opened by the
\* time it returns, on every exit path, and a failed query opens none.
C4_ProbeReleasesRows ==
    probe.called =>
        /\ probe.opened => probe.closed
        /\ \A r \in rowsOpen : r.by # "RetrieveColumnTypes"
        /\ probe.o = "Query" => ~probe.opened

\* C5: ReadTable has released the result set it opened by the time it
\* returns, on every exit path: success, failure to obtain the column
\* types, a row scan failure.
C5_ReadReleasesRows ==
    read.called =>
        /\ read.o.kind # "Query" => (read.opened /\ read.closed)
        /\ \A r \in rowsOpen : r.by # "ReadTable"

\* ReadTable returned after the Scan of the second row failed
C5_Witness ==
    /\ read.called
    /\ read.o = [kind |-> "Scan", at |-> 2]
    /\ read.opened

\* C7: when the probe query fails the table export returns that error
\* without creating the output file, writing a header, issuing the
\* full-table query or uploading an object.
C7_ProbeFailureWritesNothing ==
    (probe.called /\ probe.o = "Query") =>
        /\ Returned
        /\ tErr = ErrQuery
        /\ ~files[ArtifactName(cur)].exists
        /\ files[ArtifactName(cur)].handles = 0
        /\ writer.buf = <<>>
        /\ ~read.called
        /\ queries = <<select1FromTable(cur)>>
        /\ ~bucket[ArtifactName(cur)].exists
        /\ uploads = <<>>

C7_Witness ==
    /\ probe.called
    /\ probe.o = "Query"
    /\ Returned

\* C8: when the Scan of a row fails ReadTable stops at that row and returns
\* the error and no rows, also when earlier rows were decoded, so that no
\* data record is written; when the query fails it returns that error and
\* no rows.
C8_FailedReadReturnsNoRows ==
    read.called =>
        /\ read.o.kind = "Scan" =>
              /\ read.err = ErrScan
              /\ read.finalRows = <<>>
              /\ read.fetched = read.o.at
              /\ writer.buf = <<colNames>>
              /\ tErr = ErrScan
        /\ read.o.kind = "Query" =>
              /\ read.err = ErrQuery
              /\ read.finalRows = <<>>
              /\ tErr = ErrQuery

\* the Scan of the second row failed after the first row was decoded
C8_Witness ==
    /\ read.called
    /\ read.o = [kind |-> "Scan", at |-> 2]
    /\ Len(read.produced) >= 2

\* C9: ReadTable caps the number of rows only when limit > 0: at most limit
\* rows then, and every row of the table when limit <= 0.
C9_LimitCapsRows ==
    (read.called /\ read.err = NoErr) =>
        /\ limit > 0 => Len(read.finalRows) <= limit
        /\ limit <= 0 => Len(read.finalRows) = Len(db[cur].rows)

\* the textual form of a database value: a NULL reads as the zero value of
\* the column's scan type
TextOf(cell, typeName) ==
    IF cell.k = "NULL"
    THEN (CASE DocumentedScanKind(typeName) = "NullBool" -> "false"
            [] DocumentedScanKind(typeName) = "NullInt64" -> "0"
            [] OTHER -> "")
    ELSE IF cell.k = "bool" THEN (IF cell.b THEN "true" ELSE "false")
    ELSE IF cell.k = "int64" THEN ToString(cell.i)
    ELSE cell.s

\* field of a row of the result set for a header column; a row that has no
\* such column has no value for it
FieldOf(cells, columnTypes, colName) ==
    IF \E j \in 1..Len(columnTypes) : columnTypes[j].name = colName
    THEN LET j == CHOOSE j \in 1..Len(columnTypes) : columnTypes[j].name = colName
         IN TextOf(cells[j], columnTypes[j].type)
    ELSE "(no value)"

\* C10: the output of a table export that succeeds is the header record
\* (the column names in probe order) followed by one record per row the
\* full-table query returned, in order, field i being the textual form of
\* the row's value for header column i; an empty table gives the header only.
C10_OutputIsHeaderAndRows ==
    (Returned /\ tErr = NoErr) =>
        /\ colNames = getColumnNames(probe.columnTypes)
        /\ Output =
              <<colNames>> \o
              [i \in 1..read.fetched |->
                 [j \in 1..Len(colNames) |->
                    FieldOf(read.produced[i], read.columnTypes, colNames[j])]]

-----------------------------------------------------------------------------
(* Properties of a run *)

\* the run has returned because the export of table idx of the list failed
TableExportFailed == mode = "run" /\ pc = "exit" /\ tErr # NoErr

\* the SELECT * statements issued, in order
TableQueries == SelectSeq(queries, LAMBDA q : q.text = "SELECT * FROM")

\* one probe and one full read per table up to the failed one, whose full
\* read is there only when the export got that far
QueriesUpToFailed ==
    /\ Len(TableQueries) \in {2 * idx - 1, 2 * idx}
    /\ \A j \in 1..Len(TableQueries) :
          TableQueries[j] =
             IF j % 2 = 1
             THEN select1FromTable(tableNames[(j + 1) \div 2])
             ELSE limitedStatement(tableNames[j \div 2], limit)

ArtifactOf(tableName) ==
    IF sinkKind = "file"
    THEN files[ArtifactName(tableName)]
    ELSE bucket[ArtifactName(tableName)]

NothingAfterFailed ==
    \A t \in TableUniverse :
        t \notin {tableNames[j] : j \in 1..idx} => ~ArtifactOf(t).exists

AbortedWithStorageError ==
    /\ exitStatus = ExitStatusStorageError
    /\ runErr = tErr
    /\ Len(exported) = idx - 1
    /\ QueriesUpToFailed
    /\ NothingAfterFailed

\* C6: when the export of the k-th table of the list fails, the run returns
\* that error with ExitStatusStorageError, no table after the k-th is queried
\* or written, the failed table is not retried, and the artifact of every
\* table before the k-th holds what its export wrote.
C6_EarlierArtifactsStay ==
    TableExportFailed =>
        /\ AbortedWithStorageError
        /\ \A j \in 1..(idx - 1) :
              ArtifactOf(tableNames[j]).content = exported[j].records

\* C6 as the code has it: the list of tables is not deduplicated and every
\* export creates its artifact anew, so the artifact of an earlier table
\* holds what its export wrote unless a later table of the list, up to the
\* failed one, has the same name.
C6_AbortAtFailedTable ==
    TableExportFailed =>
        /\ AbortedWithStorageError
        /\ \A j \in 1..(idx - 1) :
              tableNames[j] \notin {tableNames[i] : i \in (j + 1)..idx} =>
                  ArtifactOf(tableNames[j]).content = exported[j].records

\* the second table of a list of two different tables has failed after the
\* first was written, with the file of the second already created
C6_Witness ==
    /\ TableExportFailed
    /\ idx = 2
    /\ Len(tableNames) >= 2
    /\ tableNames[1] # tableNames[2]
    /\ Len(exported) = 1
    /\ Len(exported[1].records) > 1
    /\ Len(TableQueries) = 4

-----------------------------------------------------------------------------
(* NULL and the zero value *)

\* the zero value of a scan slot's Go type
ZeroValueOf(kind) ==
    CASE kind = "NullBool" -> BoolV(FALSE)
      [] kind = "NullInt64" -> IntV(0)
      [] OTHER -> StrV("")

\* the row with the zero value of the column's scan type in place of NULL
ZeroFilled(cells, columnTypes) ==
    [j \in 1..Len(cells) |->
        IF cells[j] = NullV
        THEN ZeroValueOf(DocumentedScanKind(columnTypes[j].type))
        ELSE cells[j]]

\* C11: a SQL NULL is exported as the zero value of the column's scan type
\* (false, empty string, 0): every data record of a successful export is
\* the record the same row gives with the zero value in place of each NULL.
C11_NullExportedAsZeroValue ==
    (Returned /\ tErr = NoErr) =>
        \A i \in 1..Len(read.finalRows) :
            /\ Output[i + 1] =
                  RecordOf(DecodeRow(read.columnTypes,
                                     ZeroFilled(read.produced[i], read.columnTypes)),
                           colNames)
            /\ \A j \in 1..Len(read.columnTypes) :
                  read.produced[i][j] = NullV =>
                     read.finalRows[i][read.columnTypes[j].name] =
                        ZeroValueOf(DocumentedScanKind(read.columnTypes[j].type))

\* a row with a NULL in an INT4 column and in a BOOL or text column was
\* exported with the columns of the header
C11_Witness ==
    /\ Returned
    /\ tErr = NoErr
    /\ getColumnNames(read.columnTypes) = colNames
    /\ Len(colNames) >= 2
    /\ \E i \in 1..Len(read.finalRows) :
          /\ \A j \in 1..Len(read.columnTypes) : read.produced[i][j] = NullV
          /\ \E j \in 1..Len(read.columnTypes) : read.columnTypes[j].type = "INT4"
          /\ Output[i + 1][1] \in {"0", "", "false"}

-----------------------------------------------------------------------------
(* Idempotence *)

\* the second of two exports of a table that nobody changed has returned nil
ExportedTwice ==
    /\ mode = "twice"
    /\ Returned
    /\ idx = 2
    /\ tErr = NoErr
    /\ ~altered

\* C12: exporting the same table twice to the same kind of sink, the table
\* unchanged, gives the same output both times.
C12_SameOutputTwice ==
    ExportedTwice => Output = exported[1].records

\* C12 as the code has it: the outputs are the same when both scans
\* delivered the rows in the same order and both iterations were complete.
C12_SameOutputForSameScan ==
    (/\ ExportedTwice
     /\ read.produced = exported[1].read.produced
     /\ read.o.kind = "ok"
     /\ exported[1].read.o.kind = "ok") =>
        Output = exported[1].records

\* a table of two rows was exported twice, both scans complete and in the
\* same order
C12_Witness ==
    /\ ExportedTwice
    /\ read.produced = exported[1].read.produced
    /\ read.o.kind = "ok"
    /\ exported[1].read.o.kind = "ok"
    /\ Len(Output) = 3
    /\ Output[2] # Output[3]

-----------------------------------------------------------------------------
(* The metadata artifact *)

\* the artifact of the given name is complete: uploaded, or written and closed
ArtifactWritten(name) ==
    IF sinkKind = "file"
    THEN files[name].exists /\ files[name].handles = 0
    ELSE bucket[name].exists

ArtifactContent(name) ==
    IF sinkKind = "file" THEN files[name].content ELSE bucket[name].content

\* C13: TableMetadataToCSV writes the header Table name,Records and then,
\* for each table of the list in the list's order, one record holding the
\* table name and the record count read for that table: as many data
\* records as the list has names when every count query succeeds.
C13_MetadataRecordPerTable ==
    (mode = "run" /\ ArtifactWritten(metadataTable)) =>
        /\ Len(ArtifactContent(metadataTable)) = 1 + Len(tableNames)
        /\ ArtifactContent(metadataTable)[1] = <<"Table name", "Records">>
        /\ \A i \in 1..Len(tableNames) :
              ArtifactContent(metadataTable)[i + 1] =
                 <<tableNames[i], ToString(Len(db[tableNames[i]].rows))>>

\* the metadata of a list of an empty table followed by a table with a row
C13_Witness ==
    /\ mode = "run"
    /\ ArtifactWritten(metadataTable)
    /\ tableNames = <<"t2", "t1">>
    /\ ArtifactContent(metadataTable)[2] = <<"t2", "0">>
    /\ ArtifactContent(metadataTable)[3] = <<"t1", "1">>

\* the count statements issued, in order
CountQueries == SelectSeq(queries, LAMBDA q : q.text = "SELECT count(*) FROM")

\* C14: when the count query fails for the k-th table TableMetadataToCSV
\* returns that error at once: count queries were issued for the first k
\* tables only, each once, nothing of the metadata reaches the sink, no
\* metadata object is uploaded, and the run ends with that error.
C14_CountFailureStopsMetadata ==
    (calls.metadata.called /\ calls.metadata.m.fail = "count") =>
        /\ calls.metadata.err = ErrScan
        /\ CountQueries = [j \in 1..calls.metadata.m.at |->
                             selectCountFromTable(tableNames[j])]
        /\ ArtifactContent(metadataTable) = <<>>
        /\ ~bucket[metadataTable].exists
        /\ metadataTable \notin Range(uploads)
        /\ pc = "exit"
        /\ exitStatus = ExitStatusStorageError
        /\ runErr = calls.metadata.err

\* the count query of the first of two tables failed in an export to S3
C14_Witness ==
    /\ calls.metadata.called
    /\ calls.metadata.m = [fail |-> "count", at |-> 1]
    /\ Len(tableNames) = 2
    /\ sinkKind = "S3"
    /\ Len(CountQueries) = 1

-----------------------------------------------------------------------------
(* The disabled rules artifact *)

\* C15: the disabled-rules artifact holds only rules whose count in
\* rule_disable is greater than 1, one record per rule with that count,
\* ordered by count descending; a rule with count 1 never appears in it.
C15_OnlyRulesDisabledMoreThanOnce ==
    (mode = "run" /\ ArtifactWritten(disabledRules)) =>
        LET c == ArtifactContent(disabledRules) IN
        /\ Len(c) >= 1
        /\ \A i \in 2..Len(c) :
              /\ c[i][1] \in Rules
              /\ ruleDisable[c[i][1]] > 1
              /\ c[i][2] = ToString(ruleDisable[c[i][1]])
              /\ \A j \in 2..Len(c) : i # j => c[i][1] # c[j][1]
        /\ \A i \in 2..(Len(c) - 1) :
              ruleDisable[c[i][1]] >= ruleDisable[c[i + 1][1]]

\* two rules of different counts were written and a rule of count 1 was not
C15_Witness ==
    /\ mode = "run"
    /\ ArtifactWritten(disabledRules)
    /\ \E r \in Rules : ruleDisable[r] = 1
    /\ Len(ArtifactContent(disabledRules)) = 3
    /\ ArtifactContent(disabledRules)[2][2] # ArtifactContent(disabledRules)[3][2]

\* C16: DisabledRulesToCSV writes the header Rule,Count followed by exactly
\* one record per element of the list it is given, in the list's order,
\* without filtering or reordering; an empty list gives the header only.
C16_RecordPerGivenRule ==
    (/\ mode = "csv"
     /\ calls.disabledRules.called
     /\ calls.disabledRules.err = NoErr) =>
        LET given == calls.disabledRules.given
            out == calls.disabledRules.out
        IN
        /\ Len(out) = 1 + Len(given)
        /\ out[1] = <<"Rule", "Count">>
        /\ \A i \in 1..Len(given) :
              out[i + 1] = <<given[i].Rule, ToString(given[i].Count)>>

\* a list that is not ordered by count and holds a rule of count 1 or less
\* was converted
C16_Witness ==
    /\ mode = "csv"
    /\ calls.disabledRules.called
    /\ calls.disabledRules.err = NoErr
    /\ Len(calls.disabledRules.given) = 2
    /\ calls.disabledRules.given[1].Count <= 1
    /\ calls.disabledRules.given[1].Count < calls.disabledRules.given[2].Count
    /\ Len(calls.disabledRules.out) = 3

\* the empty list was converted
C16_WitnessEmpty ==
    /\ mode = "csv"
    /\ calls.disabledRules.called
    /\ calls.disabledRules.buffer = "writer"
    /\ calls.disabledRules.err = NoErr
    /\ calls.disabledRules.given = <<>>

-----------------------------------------------------------------------------
(* The list of tables artifact *)

\* C17: the table names export, to a file and to the bucket, writes the
\* header Table name followed by one record per name of the list it is
\* given, in the list's order, without sorting and without leaving out a
\* repeated name; an empty list gives the header only.
C17_RecordPerTableName ==
    (mode = "run" /\ calls.tableNames.called /\ calls.tableNames.err = NoErr) =>
        LET given == calls.tableNames.given
            out == ArtifactContent(listOfTables)
        IN
        /\ ArtifactWritten(listOfTables)
        /\ Len(out) = 1 + Len(given)
        /\ out[1] = <<"Table name">>
        /\ \A i \in 1..Len(given) : out[i + 1] = <<given[i]>>

\* a list naming the same table twice was exported to a file
C17_Witness ==
    /\ mode = "run"
    /\ sinkKind = "file"
    /\ calls.tableNames.called
    /\ calls.tableNames.err = NoErr
    /\ calls.tableNames.given = <<"t1", "t1">>
    /\ files[listOfTables].content = <<<<"Table name">>, <<"t1">>, <<"t1">>>>

\* a list that is not in alphabetical order was uploaded
C17_WitnessUnsorted ==
    /\ mode = "run"
    /\ sinkKind = "S3"
    /\ calls.tableNames.called
    /\ calls.tableNames.err = NoErr
    /\ calls.tableNames.given = <<"t2", "t1">>
    /\ bucket[listOfTables].content = <<<<"Table name">>, <<"t2">>, <<"t1">>>>

\* the empty list was exported
C17_WitnessEmpty ==
    /\ mode = "run"
    /\ calls.tableNames.called
    /\ calls.tableNames.err = NoErr
    /\ calls.tableNames.given = <<>>
    /\ ArtifactContent(listOfTables) = <<<<"Table name">>>>

-----------------------------------------------------------------------------
(* Write and flush errors *)

\* the failures of a CSV writer among the outcomes of an export
WriterFailures == {"header", "write", "flush"}

\* the exports of the aggregate artifacts that were called
AggregateCalls ==
    {n \in {"tableNames", "metadata", "disabledRules"} : calls[n].called}

\* a write or flush failure was drawn for the export
WriterFailed(c) == c.io.fail \in WriterFailures \/ c.m.fail \in WriterFailures

\* C18: every export that writes CSV flushes its writer before it finishes
\* and returns the error its writer recorded. A table export that returned
\* nil has left nothing in its writer and the whole of its records in the
\* artifact, and one whose writer recorded an error returned that error; an
\* export of the table names, the metadata or the disabled rules whose
\* writer failed returned the write or flush error; and a run that ends
\* with ExitStatusOK had no writer failure at all.
C18_WriterErrorIsReturned ==
    /\ (mode = "run" /\ pc = "return" /\ writer.err # NoErr) => tErr = writer.err
    /\ (mode = "run" /\ pc = "return" /\ tErr = NoErr) =>
          /\ writer.buf = <<>>
          /\ ArtifactWritten(ArtifactName(cur))
          /\ Len(ArtifactContent(ArtifactName(cur))) = 1 + Len(read.finalRows)
    /\ \A n \in AggregateCalls :
          WriterFailed(calls[n]) =>
             /\ calls[n].err \in {ErrWrite, ErrFlush}
             /\ pc = "exit"
             /\ exitStatus # ExitStatusOK
             /\ runErr = calls[n].err
    /\ (pc = "exit" /\ exitStatus = ExitStatusOK) =>
          /\ writer.err = NoErr
          /\ \A n \in AggregateCalls : ~WriterFailed(calls[n])

\* the Flush of a table export to a file failed and the export returned the
\* error
C18_Witness ==
    /\ mode = "run"
    /\ sinkKind = "file"
    /\ pc = "return"
    /\ writer.err = ErrFlush
    /\ tErr = ErrFlush
    /\ ~ArtifactWritten(ArtifactName(cur))

\* a Write of the table names export failed: the flush error ended the run
C18_WitnessTableNames ==
    /\ calls.tableNames.called
    /\ calls.tableNames.io.fail = "write"
    /\ calls.tableNames.err = ErrWrite
    /\ exitStatus = ExitStatusStorageError

\* the Flush of the metadata export failed
C18_WitnessMetadata ==
    /\ calls.metadata.called
    /\ calls.metadata.m.fail = "flush"
    /\ calls.metadata.err = ErrFlush
    /\ pc = "exit"

\* a Write of the disabled rules export failed
C18_WitnessDisabledRules ==
    /\ calls.disabledRules.called
    /\ calls.disabledRules.io.fail = "write"
    /\ calls.disabledRules.err = ErrWrite
    /\ pc = "exit"

\* a table export to the bucket returned nil with its buffer flushed
C18_WitnessUpload ==
    /\ mode = "run"
    /\ sinkKind = "S3"
    /\ pc = "return"
    /\ tErr = NoErr
    /\ Len(bucket[ArtifactName(cur)].content) = 2

-----------------------------------------------------------------------------
(* The nil buffer *)

\* C19: DisabledRulesToCSV and TableMetadataToCSV called with a nil buffer
\* return the error "Buffer is nil" before anything else: nothing is
\* written and no count query is issued. A call with a buffer does not
\* return that error.
C19_NilBufferIsRefusedFirst ==
    \A n \in {"disabledRules", "metadata"} :
        (mode = "csv" /\ calls[n].called) =>
            IF calls[n].buffer = "nil"
            THEN /\ calls[n].err = "Buffer is nil"
                 /\ calls[n].out = <<>>
                 /\ queries = <<>>
            ELSE calls[n].err # "Buffer is nil"

\* TableMetadataToCSV was called with a nil buffer and a list of two tables
C19_Witness ==
    /\ mode = "csv"
    /\ calls.metadata.called
    /\ calls.metadata.buffer = "nil"
    /\ Len(calls.metadata.given) = 2
    /\ calls.metadata.err = ErrBufferIsNil

\* DisabledRulesToCSV was called with a nil buffer and a list of two rules
C19_WitnessDisabledRules ==
    /\ mode = "csv"
    /\ calls.disabledRules.called
    /\ calls.disabledRules.buffer = "nil"
    /\ Len(calls.disabledRules.given) = 2
    /\ calls.disabledRules.err = ErrBufferIsNil

\* TableMetadataToCSV was called with a buffer and issued its count queries
C19_WitnessBuffer ==
    /\ mode = "csv"
    /\ calls.metadata.called
    /\ calls.metadata.buffer = "writer"
    /\ calls.metadata.err = NoErr
    /\ Len(queries) = 2

-----------------------------------------------------------------------------
(* The exit codes of performDataExport *)

\* no export step was performed: no query, no result set, no artifact
NoExportStep ==
    /\ queries = <<>>
    /\ rowsOpen = {}
    /\ uploads = <<>>
    /\ \A n \in ArtifactNames : ~files[n].exists /\ ~bucket[n].exists
    /\ calls = NoCalls
    /\ exported = <<>>

C20_WitnessNoStorage ==
    /\ pc = "exit"
    /\ connection = "none"
    /\ cliFlags.Output = "S3"
    /\ exitStatus = ExitStatusStorageError

\* NewS3Connection failed
C20_WitnessNoS3 ==
    /\ pc = "exit"
    /\ runErr = ErrNewS3Connection
    /\ exitStatus = ExitStatusS3Error
    /\ Len(catalog) = 2

\* the list of tables of a run to files failed at its second row
C20_WitnessNoList ==
    /\ pc = "exit"
    /\ cliFlags.Output = "file"
    /\ calls.list.o = [kind |-> "Scan", at |-> 2]
    /\ exitStatus = ExitStatusStorageError

-----------------------------------------------------------------------------
(* The completeness of a read *)

\* C28: when ReadTable returns without error the rows it returns are all
\* the rows its statement produced, decoded, in the order they were
\* delivered; an iteration the cursor ended early is returned as an error.
C28_ReadIsCompleteOrFails ==
    (read.called /\ read.err = NoErr) =>
        /\ ~read.rowsErr
        /\ Len(read.finalRows) = Len(read.produced)
        /\ \A i \in 1..Len(read.produced) :
              read.finalRows[i] = DecodeRow(read.columnTypes, read.produced[i])

\* the cursor failed after the first of two rows and ReadTable returned the
\* one row with a nil error
C28_Witness ==
    /\ read.called
    /\ read.o = [kind |-> "Cursor", at |-> 1]
    /\ Len(read.produced) = 2
    /\ Len(read.finalRows) = 1
    /\ read.err = NoErr
    /\ read.rowsErr

\* with a complete iteration the rows returned are the rows produced
C28_CompleteIterationReturnsAll ==
    (read.called /\ read.err = NoErr /\ read.o.kind # "Cursor") =>
        /\ Len(read.finalRows) = Len(read.produced)
        /\ \A i \in 1..Len(read.produced) :
              read.finalRows[i] = DecodeRow(read.columnTypes, read.produced[i])

-----------------------------------------------------------------------------
(* Result sets of a run *)

\* C23: at every point of a data export run at most one result set is open
\* on the connection: a result set a call has left open belongs to the last
\* statement issued, so no statement was issued while it was open; the
\* full-table query of a table is issued with the probe's result set
\* closed, and a probe with every earlier result set closed.
C23_AtMostOneResultSetOpen ==
    mode = "run" =>
        /\ Cardinality(rowsOpen) <= 1
        /\ \A r \in rowsOpen : r.n = Len(queries)
        /\ read.called => (probe.opened /\ probe.closed)
        /\ (pc = "WriteTableContent") => rowsOpen = {}
        /\ (pc = "StoreTable") => rowsOpen = {}

\* the second table of the list is being exported after its probe: two
\* probes and a full-table query were issued, every result set is closed
C23_Witness ==
    /\ mode = "run"
    /\ idx = 2
    /\ pc = "WriteTableContent"
    /\ Len(exported) = 1
    /\ exported[1].read.opened
    /\ probe.opened
    /\ rowsOpen = {}

\* a probe whose column types could not be read left its result set open,
\* and no statement followed
C23_WitnessLeftOpen ==
    /\ mode = "run"
    /\ probe.o = "ColumnTypes"
    /\ Cardinality(rowsOpen) = 1
    /\ pc = "exit"

-----------------------------------------------------------------------------
(* Output files of a run *)

\* C24: every output file a file export has opened is closed by the time
\* the operation returns, on its error paths as on success: outside of a
\* table export that is between its header and its content no file has an
\* open handle.
C24_FilesClosedOnReturn ==
    (mode = "run" /\ pc # "WriteTableContent") =>
        \A n \in ArtifactNames : files[n].handles = 0

\* StoreTableIntoFile returned the error of its table read and left the
\* file it created open
C24_Witness ==
    /\ mode = "run"
    /\ sinkKind = "file"
    /\ pc = "return"
    /\ read.called
    /\ read.err # NoErr
    /\ tErr = read.err
    /\ files[ArtifactName(cur)].handles = 1

\* the metadata file is left open by a failed count query
C24_WitnessMetadata ==
    /\ mode = "run"
    /\ calls.metadata.called
    /\ calls.metadata.m.fail = "count"
    /\ files[metadataTable].handles = 1
    /\ pc = "exit"

\* on the paths that return nil, and on a failed Close, the file is closed
C24_FilesClosedOnSuccess ==
    /\ (mode = "run" /\ pc = "return" /\ tErr \in {NoErr, ErrFileClose}) =>
          files[ArtifactName(cur)].handles = 0
    /\ (mode = "run" /\ pc = "exit" /\ exitStatus = ExitStatusOK) =>
          \A n \in ArtifactNames : files[n].handles = 0

-----------------------------------------------------------------------------
(* A failed list of tables *)

\* C25: when reading the list of tables fails, by its query or by the Scan
\* of any row, the run returns ExitStatusStorageError with that error and
\* produces no artifact at all: no table names, metadata or disabled rules
\* artifact and no table export, also when ReadListOfTables handed back the
\* names scanned before the failed Scan.
C25_FailedListProducesNothing ==
    (mode = "run" /\ calls.list.called
     /\ calls.list.o.kind \in {"Query", "Scan"}) =>
        /\ pc = "exit"
        /\ exitStatus = ExitStatusStorageError
        /\ calls.list.err # NoErr
        /\ runErr = calls.list.err
        /\ tableNames = <<>>
        /\ \A n \in ArtifactNames : ~files[n].exists /\ ~bucket[n].exists
        /\ uploads = <<>>
        /\ exported = <<>>
        /\ \A n \in {"tableNames", "metadata", "disabledRules"} : ~calls[n].called
        /\ queries = <<selectListOfTables>>

\* the Scan of the second name failed: the first name was handed back with
\* the error, all exports were requested, and the run ended
C25_Witness ==
    /\ mode = "run"
    /\ calls.list.o = [kind |-> "Scan", at |-> 2]
    /\ calls.list.given = <<"t1">>
    /\ cliFlags.ExportMetadata
    /\ cliFlags.ExportDisabledRules
    /\ exitStatus = ExitStatusStorageError
    /\ runErr = ErrScan

-----------------------------------------------------------------------------
(* The object of a table *)

\* the uploads of the object of the table being exported
UploadsOfTable ==
    SelectSeq(uploads, LAMBDA n : n = ArtifactName(cur))

\* C26: StoreTable uploads the object of a table at most once and only
\* after the header and every data record of the table are in the buffer;
\* when the probe, the header write or the table read fails no object is
\* uploaded, so the bucket never holds a header-only or truncated object of
\* a table.
C26_UploadedObjectIsComplete ==
    (mode = "table" /\ sinkKind = "S3") =>
        /\ Len(UploadsOfTable) <= 1
        /\ bucket[ArtifactName(cur)].exists =>
              /\ pc = "return"
              /\ tErr = NoErr
              /\ probe.err = NoErr
              /\ read.called /\ read.err = NoErr
              /\ Len(bucket[ArtifactName(cur)].content) = 1 + Len(read.produced)
              /\ bucket[ArtifactName(cur)].content[1] = colNames
        /\ (pc = "return" /\ tErr # NoErr) =>
              /\ ~bucket[ArtifactName(cur)].exists
              /\ UploadsOfTable = <<>>

\* the cursor failed before the first of two rows: the object of the table
\* was uploaded with the header only and the export returned nil
C26_Witness ==
    /\ mode = "table"
    /\ sinkKind = "S3"
    /\ pc = "return"
    /\ tErr = NoErr
    /\ read.o = [kind |-> "Cursor", at |-> 0]
    /\ Len(read.produced) = 2
    /\ bucket[ArtifactName(cur)].exists
    /\ Len(bucket[ArtifactName(cur)].content) = 1

\* with a complete iteration the uploaded object holds the header and a
\* record per row, and a failed export uploads nothing
C26_CompleteReadUploadsAll ==
    (mode = "table" /\ sinkKind = "S3") =>
        /\ Len(UploadsOfTable) <= 1
        /\ (bucket[ArtifactName(cur)].exists /\ read.o.kind # "Cursor") =>
              /\ tErr = NoErr
              /\ read.called /\ read.err = NoErr
              /\ Len(bucket[ArtifactName(cur)].content) = 1 + Len(read.produced)
        /\ (pc = "return" /\ tErr # NoErr) => ~bucket[ArtifactName(cur)].exists

-----------------------------------------------------------------------------
(* The storage connection *)

\* C27: once performDataExport has opened the storage connection, the
\* connection is closed by the time the run returns, on every return path.
C27_ConnectionClosedOnReturn ==
    (mode = "run" /\ pc = "exit" /\ connection # "none") =>
        connection = "closed"

\* the run returned the error of a failed table export with the connection
\* still open
C27_Witness ==
    /\ mode = "run"
    /\ pc = "exit"
    /\ exitStatus = ExitStatusStorageError
    /\ idx >= 1
    /\ tErr # NoErr
    /\ runErr = tErr
    /\ connection = "open"

\* the run returned with an unknown output and the connection still open
C27_WitnessUnknownOutput ==
    /\ mode = "run"
    /\ pc = "exit"
    /\ exitStatus = ExitStatusConfigurationError
    /\ connection = "open"

\* the connection is closed when the run returns ExitStatusOK, and only then
C27_ClosedOnSuccessOnly ==
    (mode = "run" /\ pc = "exit") =>
        (connection = "closed" <=> exitStatus = ExitStatusOK)

-----------------------------------------------------------------------------
(* The order of the steps of a run *)

\* the statements of the table exports of the first n tables of the list
TableStatements(n) ==
    IF n = 0 THEN <<>>
    ELSE LET pair[i \in 0..n] ==
                 IF i = 0 THEN <<>>
                 ELSE pair[i - 1] \o <<select1FromTable(tableNames[i]),
                                       limitedStatement(tableNames[i], limit)>>
         IN pair[n]

\* the statements of a run that has exported n tables, in the order of
\* its steps
StatementsInOrder(n) ==
    <<selectListOfTables>>
    \o (IF cliFlags.ExportMetadata
        THEN [i \in 1..Len(tableNames) |-> selectCountFromTable(tableNames[i])]
        ELSE <<>>)
    \o (IF cliFlags.ExportDisabledRules THEN <<selectDisabledRules>> ELSE <<>>)
    \o TableStatements(n)

\* the objects of a run to S3 that has exported n tables, in order
UploadsInOrder(n) ==
    (IF cliFlags.ExportMetadata THEN <<listOfTables, metadataTable>> ELSE <<>>)
    \o (IF cliFlags.ExportDisabledRules THEN <<disabledRules>> ELSE <<>>)
    \o [i \in 1..n |-> ArtifactName(tableNames[i])]

\* the aggregate artifacts are there if and only if they were requested
AggregatesAsRequested ==
    /\ ArtifactWritten(listOfTables) <=> cliFlags.ExportMetadata
    /\ ArtifactWritten(metadataTable) <=> cliFlags.ExportMetadata
    /\ ArtifactWritten(disabledRules) <=> cliFlags.ExportDisabledRules

\* the steps up to the n-th table export were taken in the order of the
\* run, each once
StepsInOrder(n) ==
    /\ queries = StatementsInOrder(n)
    /\ sinkKind = "S3" => uploads = UploadsInOrder(n)
    /\ AggregatesAsRequested
    /\ [i \in 1..Len(exported) |-> exported[i].name] = SubSeq(tableNames, 1, n)

\* C22: a successful run reads the list of tables, then writes the table
\* names and the metadata artifacts if metadata export is requested, then
\* the disabled rules artifact if requested, then exports the tables one at
\* a time in the order of the list, then closes the connection; no table is
\* exported before the requested aggregate artifacts are complete, and no
\* table is exported twice.
C22_StepsInOrderEachTableOnce ==
    /\ (mode = "run" /\ pc = "exit" /\ exitStatus = ExitStatusOK) =>
          /\ StepsInOrder(Len(tableNames))
          /\ connection = "closed"
    /\ (mode = "run" /\ pc = "return" /\ tErr = NoErr) =>
          /\ AggregatesAsRequested
          /\ connection = "open"
    /\ mode = "run" =>
          \A i, j \in 1..Len(exported) : i # j => exported[i].name # exported[j].name

\* a successful run over a list that names the table t1 twice: t1 was
\* exported twice
C22_Witness ==
    /\ mode = "run"
    /\ pc = "exit"
    /\ exitStatus = ExitStatusOK
    /\ tableNames = <<"t1", "t1">>
    /\ Len(exported) = 2
    /\ exported[1].name = exported[2].name
    /\ cliFlags.ExportMetadata
    /\ cliFlags.ExportDisabledRules

\* C22 as the code has it: the steps are taken in order and every entry of
\* the list is exported once, a name the list repeats once per entry
C22_StepsInOrderEachEntryOnce ==
    /\ (mode = "run" /\ pc = "exit" /\ exitStatus = ExitStatusOK) =>
          /\ StepsInOrder(Len(tableNames))
          /\ connection = "closed"
    /\ (mode = "run" /\ pc = "return" /\ tErr = NoErr) =>
          /\ AggregatesAsRequested
          /\ connection = "open"
          /\ queries = StatementsInOrder(idx)
    /\ mode = "run" => Len(exported) <= idx

-----------------------------------------------------------------------------
(* The selected operation *)

\* the database and S3 were not touched by the selected operation
NothingTouched ==
    /\ connection = "none"
    /\ queries = <<>>
    /\ rowsOpen = {}
    /\ ~main.check.called
    /\ calls = NoCalls
    /\ exported = <<>>
    /\ \A n \in ArtifactNames \ {logFile} : ~files[n].exists /\ ~bucket[n].exists
    /\ pc = "exit" => (uploads = <<>> /\ ~bucket[logFile].exists)

\* C21: doSelectedOperation picks exactly one operation by the precedence
\* ShowVersion, ShowAuthors, ShowConfiguration, CheckS3Connection, data
\* export: the first three return ExitStatusOK with no error and touch
\* neither the database nor S3 whatever the other flags are, and the data
\* export runs only when none of the four flags is set.
C21_OperationByPrecedence ==
    (main.called /\ main.operation # "") =>
        /\ cliFlags.ShowVersion => main.operation = "showVersion"
        /\ (~cliFlags.ShowVersion /\ cliFlags.ShowAuthors) =>
              main.operation = "showAuthors"
        /\ (~cliFlags.ShowVersion /\ ~cliFlags.ShowAuthors
            /\ cliFlags.ShowConfiguration) =>
              main.operation = "showConfiguration"
        /\ (~cliFlags.ShowVersion /\ ~cliFlags.ShowAuthors
            /\ ~cliFlags.ShowConfiguration /\ cliFlags.CheckS3Connection) =>
              main.operation = "checkS3Connection"
        /\ main.operation \in {"showVersion", "showAuthors", "showConfiguration"} =>
              /\ pc \in {"exit", "exited"}
              /\ exitStatus = ExitStatusOK
              /\ runErr = NoErr
              /\ NothingTouched
        /\ main.check.called => main.operation = "checkS3Connection"
        /\ (main.operation = "performDataExport" \/ connection # "none"
            \/ queries # <<>> \/ calls # NoCalls) =>
              /\ main.operation = "performDataExport"
              /\ ~cliFlags.ShowVersion /\ ~cliFlags.ShowAuthors
              /\ ~cliFlags.ShowConfiguration /\ ~cliFlags.CheckS3Connection

\* with every flag set the version was shown and nothing else was done
C21_Witness ==
    /\ main.called
    /\ pc = "exit"
    /\ cliFlags.ShowVersion /\ cliFlags.ShowAuthors /\ cliFlags.ShowConfiguration
    /\ cliFlags.CheckS3Connection
    /\ cliFlags.ExportMetadata
    /\ main.operation = "showVersion"
    /\ exitStatus = ExitStatusOK

\* with none of the four flags set the data export ran to its end
C21_WitnessExport ==
    /\ main.called
    /\ main.operation = "performDataExport"
    /\ pc = "exit"
    /\ exitStatus = ExitStatusOK
    /\ Len(exported) = 1

\* the configuration was shown although the check of S3 was requested too
C21_WitnessShowConfiguration ==
    /\ main.called
    /\ pc = "exit"
    /\ cliFlags.CheckS3Connection
    /\ main.operation = "showConfiguration"

-----------------------------------------------------------------------------
(* The check of the S3 connection *)

\* C30: checkS3Connection returns ExitStatusOK with no error only when the
\* S3 client was constructed, the bucket existence call returned without
\* error and the configured bucket exists; a missing bucket is not a
\* successful check.
C30_CheckSucceedsOnlyWithBucket ==
    (main.check.called /\ exitStatus = ExitStatusOK /\ runErr = NoErr) =>
        /\ main.check.client
        /\ ~main.check.existsErr
        /\ main.check.found

\* the bucket was not found and the check returned ExitStatusOK
C30_Witness ==
    /\ main.check.called
    /\ main.check.client
    /\ ~main.check.existsErr
    /\ ~main.check.found
    /\ pc = "exit"
    /\ exitStatus = ExitStatusOK
    /\ runErr = NoErr

\* the check fails when the client or the bucket existence call fails, and
\* succeeds otherwise, with or without the bucket
C30_CheckFailsOnErrorsOnly ==
    main.check.called =>
        /\ (~main.check.client \/ main.check.existsErr) =>
              (exitStatus = ExitStatusS3Error /\ runErr # NoErr)
        /\ (main.check.client /\ ~main.check.existsErr) =>
              (exitStatus = ExitStatusOK /\ runErr = NoErr)

-----------------------------------------------------------------------------
(* The upload of the operation log *)

\* storeOpertionLogIntoS3 was called
LogUploadTried == main.upload # ""

\* C29: mainWithStatusCode uploads the operation log to S3 under the name
\* _logs.txt if and only if log export is requested, the output is S3 and
\* the selected operation returned no error; when the operation fails the
\* process exits with the operation's exit status and the log is not
\* uploaded; when the upload fails the exit status is ExitStatusS3Error;
\* the upload happens after the operation has finished, never before.
C29_LogUploadedAfterSuccessOnly ==
    main.called =>
        /\ pc # "exited" =>
              /\ ~LogUploadTried
              /\ ~bucket[logFile].exists
              /\ logFile \notin Range(uploads)
        /\ (pc = "exited" /\ main.operation # "") =>
              /\ LogUploadTried <=>
                    (cliFlags.ExportLog /\ cliFlags.Output = "S3" /\ runErr = NoErr)
              /\ runErr # NoErr =>
                    (main.status = exitStatus /\ main.status # ExitStatusOK)
              /\ main.upload = "ok" =>
                    /\ bucket[logFile].exists
                    /\ bucket[logFile].content = main.buffer
                    /\ uploads # <<>> /\ uploads[Len(uploads)] = logFile
                    /\ main.status = ExitStatusOK
              /\ main.upload \notin {"", "ok"} =>
                    /\ main.status = ExitStatusS3Error
                    /\ ~bucket[logFile].exists
              /\ ~LogUploadTried =>
                    (~bucket[logFile].exists /\ logFile \notin Range(uploads))
        /\ (pc = "exited" /\ main.operation = "") =>
              (~LogUploadTried /\ ~bucket[logFile].exists)

\* the log of a successful data export to S3 was uploaded after the objects
\* of the export
C29_Witness ==
    /\ main.called
    /\ pc = "exited"
    /\ main.operation = "performDataExport"
    /\ main.upload = "ok"
    /\ Len(uploads) >= 3
    /\ uploads[Len(uploads)] = logFile
    /\ main.status = ExitStatusOK

\* the data export failed with the log requested: no upload, the status of
\* the export
C29_WitnessFailedOperation ==
    /\ main.called
    /\ pc = "exited"
    /\ cliFlags.ExportLog /\ cliFlags.Output = "S3"
    /\ runErr # NoErr
    /\ main.status = ExitStatusStorageError
    /\ ~LogUploadTried

\* the upload of the log failed
C29_WitnessFailedUpload ==
    /\ main.called
    /\ pc = "exited"
    /\ main.upload = ErrPutObject
    /\ main.status = ExitStatusS3Error

\* a log requested with the output file is not uploaded
C29_WitnessFileOutput ==
    /\ main.called
    /\ pc = "exited"
    /\ cliFlags.ExportLog /\ cliFlags.Output = "file"
    /\ main.status = ExitStatusOK
    /\ ~LogUploadTried

====
